---- MODULE Spec2Model ----
(***************************************************************************)
(* Model of the "reactions" package: the reaction / decay grammar engine   *)
(* (include/reactions/processes.hpp, tokens.hpp) and the generic           *)
(* file-backed element database with its cache                             *)
(* (include/reactions/database.hpp).                                       *)
(*                                                                         *)
(* Strings are sequences of one-character strings.  Positions are 1-based: *)
(* the iterator "sit" of the code is the index of the character it points  *)
(* to and "end" is Len(s) + 1.                                             *)
(***************************************************************************)
EXTENDS Integers, Sequences, FiniteSets, TLC

(***************************************************************************)
(* Bounds of the model                                                     *)
(***************************************************************************)
\* longest raw input string that is enumerated exhaustively
MaxLen == 5
\* most items (elements or brace groups) on one side of a generated process
MaxItems == 2
\* most spaces between two consecutive items of a generated process
MaxGap == 2
\* most brace groups nested in one another in a generated process
MaxDepth == 2

(***************************************************************************)
(* Tokens (tokens.hpp)                                                     *)
(***************************************************************************)
space == <<" ">>
arrow == <<"-", ">">>
left_bra == <<"{">>
right_bra == <<"}">>

\* the characters an input string is made of
Alphabet == {"A", "B", " ", "-", ">", "{", "}"}

\* the terminating character that follows the last character of a
\* std::string; it matches no token
EOS == "$"

\* *(it): the character at a position, the terminator at the end position
CharAt(s, i) == IF i \in 1..Len(s) THEN s[i] ELSE EOS

\* match_token<Token>(it): the characters of the token are found at it
match_token(tok, s, i) == \A k \in 1..Len(tok) : CharAt(s, i + k - 1) = tok[k]

\* std::string{start, sit}
Sub(s, start, sit) == SubSeq(s, start, sit - 1)

\* end - sit
Rpos(s, sit) == Len(s) + 1 - sit

(***************************************************************************)
(* Nodes (processes.hpp): a tagged pointer to an element wrapper, a        *)
(* reaction or a decay                                                     *)
(***************************************************************************)
ElementNode(e) ==
  [type |-> "element", text |-> e, head |-> <<>>,
   reactants |-> <<>>, products |-> <<>>]

ReactionNode(rs, ps) ==
  [type |-> "reaction", text |-> <<>>, head |-> <<>>,
   reactants |-> rs, products |-> ps]

DecayNode(h, ps) ==
  [type |-> "decay", text |-> <<>>, head |-> h,
   reactants |-> <<>>, products |-> ps]

\* the builder of string elements: the element is the text itself
builder(text) == text

\* exceptions::__syntax_error(msg, rpos)
NoError == [msg |-> "", rpos |-> 0]
SyntaxErr(m, r) == [msg |-> m, rpos |-> r]

\* the loop that removes leading spaces
RECURSIVE SkipLeadingSpaces(_, _)
SkipLeadingSpaces(s, sit) ==
  IF match_token(space, s, sit) THEN SkipLeadingSpaces(s, sit + 1) ELSE sit

(***************************************************************************)
(* reaction::reaction(sit, end, builder)                                   *)
(* The scan state is [sit, start, cur, reactants, products, calls, err,    *)
(* done]: cur names the set current_set points to, calls lists the strings *)
(* handed to the builder so far, err is the exception thrown, done says    *)
(* that the loop was left.                                                 *)
(***************************************************************************)
PushNode(st, n) ==
  IF st.cur = "reactants"
  THEN [st EXCEPT !.reactants = Append(@, n)]
  ELSE [st EXCEPT !.products = Append(@, n)]

\* current_set->push_back(make_unique<element_type>(builder({start, sit})))
PushElement(s, st) ==
  LET text == Sub(s, st.start, st.sit)
  IN PushNode([st EXCEPT !.calls = Append(@, text)], ElementNode(builder(text)))

Throw(st, m, r) == [st EXCEPT !.err = SyntaxErr(m, r), !.done = TRUE]

RECURSIVE reaction_ctor(_, _, _)
RECURSIVE reaction_scan(_, _)

\* reaction_step without the test of a second arrow
reaction_step_NoDuplicateCheck(s, st) ==
  IF match_token(space, s, st.sit) THEN
    IF st.sit = st.start
    THEN [st EXCEPT !.sit = @ + 1, !.start = st.sit + 1]
    ELSE [PushElement(s, st) EXCEPT !.sit = @ + Len(space),
                                    !.start = st.sit + Len(space)]
  ELSE IF match_token(left_bra, s, st.sit) THEN
    IF st.sit = st.start
    THEN LET r == reaction_ctor(s, st.sit + Len(left_bra), st.calls)
         IN IF r.err # NoError
            THEN [st EXCEPT !.err = r.err, !.done = TRUE, !.calls = r.calls,
                            !.sit = r.sit]
            ELSE LET st2 == [PushNode(st, r.node) EXCEPT !.sit = r.sit,
                                                         !.calls = r.calls]
                 IN IF ~match_token(right_bra, s, st2.sit - Len(right_bra))
                    THEN Throw(st2, "Expected closing braces", Rpos(s, st2.sit))
                    ELSE st2
    ELSE [PushElement(s, st) EXCEPT !.start = st.sit]
  ELSE IF match_token(right_bra, s, st.sit) THEN
    LET st2 == IF st.sit # st.start THEN PushElement(s, st) ELSE st
    IN [st2 EXCEPT !.sit = @ + Len(right_bra),
                   !.start = st.sit + Len(right_bra), !.done = TRUE]
  ELSE IF match_token(arrow, s, st.sit) THEN
    LET st2 == IF st.sit # st.start THEN PushElement(s, st) ELSE st
    IN IF Len(st2.reactants) = 0
       THEN Throw(st2, "Missing reactants", Rpos(s, st.sit))
       ELSE [st2 EXCEPT !.sit = @ + Len(arrow), !.start = st.sit + Len(arrow),
                        !.cur = "products"]
  ELSE [st EXCEPT !.sit = @ + 1]

\* reaction_step that, before a brace, hands over the pending text in two
\* iterations: the whole text, then its last character
reaction_step_FlushesTwice(s, st) ==
  IF match_token(space, s, st.sit) THEN
    IF st.sit = st.start
    THEN [st EXCEPT !.sit = @ + 1, !.start = st.sit + 1]
    ELSE [PushElement(s, st) EXCEPT !.sit = @ + Len(space),
                                    !.start = st.sit + Len(space)]
  ELSE IF match_token(left_bra, s, st.sit) THEN
    IF st.sit = st.start
    THEN LET r == reaction_ctor(s, st.sit + Len(left_bra), st.calls)
         IN IF r.err # NoError
            THEN [st EXCEPT !.err = r.err, !.done = TRUE, !.calls = r.calls,
                            !.sit = r.sit]
            ELSE LET st2 == [PushNode(st, r.node) EXCEPT !.sit = r.sit,
                                                         !.calls = r.calls]
                 IN IF ~match_token(right_bra, s, st2.sit - Len(right_bra))
                    THEN Throw(st2, "Expected closing braces", Rpos(s, st2.sit))
                    ELSE st2
    ELSE [PushElement(s, st) EXCEPT
            !.start = IF st.sit - st.start > 1 THEN st.sit - 1 ELSE st.sit]
  ELSE IF match_token(right_bra, s, st.sit) THEN
    LET st2 == IF st.sit # st.start THEN PushElement(s, st) ELSE st
    IN [st2 EXCEPT !.sit = @ + Len(right_bra),
                   !.start = st.sit + Len(right_bra), !.done = TRUE]
  ELSE IF match_token(arrow, s, st.sit) THEN
    LET st2 == IF st.sit # st.start THEN PushElement(s, st) ELSE st
    IN IF Len(st2.reactants) = 0
       THEN Throw(st2, "Missing reactants", Rpos(s, st.sit))
       ELSE IF st2.cur = "products"
       THEN Throw(st2, "Duplicated arrow", Rpos(s, st.sit))
       ELSE [st2 EXCEPT !.sit = @ + Len(arrow), !.start = st.sit + Len(arrow),
                        !.cur = "products"]
  ELSE [st EXCEPT !.sit = @ + 1]

\* one iteration of the scanning loop of the reaction constructor
reaction_step(s, st) ==
  IF match_token(space, s, st.sit) THEN
    IF st.sit = st.start
    THEN [st EXCEPT !.sit = @ + 1, !.start = st.sit + 1]
    ELSE [PushElement(s, st) EXCEPT !.sit = @ + Len(space),
                                    !.start = st.sit + Len(space)]
  ELSE IF match_token(left_bra, s, st.sit) THEN
    IF st.sit = st.start
    THEN LET r == reaction_ctor(s, st.sit + Len(left_bra), st.calls)
         IN IF r.err # NoError
            THEN [st EXCEPT !.err = r.err, !.done = TRUE, !.calls = r.calls,
                            !.sit = r.sit]
            ELSE LET st2 == [PushNode(st, r.node) EXCEPT !.sit = r.sit,
                                                         !.calls = r.calls]
                 IN IF ~match_token(right_bra, s, st2.sit - Len(right_bra))
                    THEN Throw(st2, "Expected closing braces", Rpos(s, st2.sit))
                    ELSE st2
    ELSE [PushElement(s, st) EXCEPT !.start = st.sit]
  ELSE IF match_token(right_bra, s, st.sit) THEN
    LET st2 == IF st.sit # st.start THEN PushElement(s, st) ELSE st
    IN [st2 EXCEPT !.sit = @ + Len(right_bra),
                   !.start = st.sit + Len(right_bra), !.done = TRUE]
  ELSE IF match_token(arrow, s, st.sit) THEN
    LET st2 == IF st.sit # st.start THEN PushElement(s, st) ELSE st
    IN IF Len(st2.reactants) = 0
       THEN Throw(st2, "Missing reactants", Rpos(s, st.sit))
       ELSE IF st2.cur = "products"
       THEN Throw(st2, "Duplicated arrow", Rpos(s, st.sit))
       ELSE [st2 EXCEPT !.sit = @ + Len(arrow), !.start = st.sit + Len(arrow),
                        !.cur = "products"]
  ELSE [st EXCEPT !.sit = @ + 1]

\* while (sit != end) { ... }
reaction_scan(s, st) ==
  IF st.done \/ st.sit = Len(s) + 1
  THEN st
  ELSE reaction_scan(s, reaction_step(s, st))

\* reaction_finish without the element that is pending when the loop ends
reaction_finish_NoFlush(s, st) ==
  IF st.err # NoError THEN st
  ELSE IF Len(st.reactants) = 0
  THEN Throw(st, "Expected reactants", Rpos(s, st.sit))
  ELSE IF Len(st.products) = 0
  THEN Throw(st, "Expected products", Rpos(s, st.sit))
  ELSE st

\* the statements after the scanning loop
reaction_finish(s, st) ==
  IF st.err # NoError THEN st
  ELSE LET st2 == IF st.sit # st.start THEN PushElement(s, st) ELSE st
       IN IF Len(st2.reactants) = 0
          THEN Throw(st2, "Expected reactants", Rpos(s, st2.sit))
          ELSE IF Len(st2.products) = 0
          THEN Throw(st2, "Expected products", Rpos(s, st2.sit))
          ELSE st2

\* reaction_ctor without the check of a leading brace
reaction_ctor_NoBraceCheck(s, sit0, calls0) ==
  LET sit1 == SkipLeadingSpaces(s, sit0)
      st == reaction_finish(s, reaction_scan(s,
              [sit |-> sit1, start |-> sit1, cur |-> "reactants",
               reactants |-> <<>>, products |-> <<>>,
               calls |-> calls0, err |-> NoError, done |-> FALSE]))
  IN [err |-> st.err, sit |-> st.sit,
      node |-> ReactionNode(st.reactants, st.products), calls |-> st.calls]

\* the constructor from the string iterators; the result holds the position
\* sit is left at, the exception thrown (or NoError), the node built and the
\* builder calls made
reaction_ctor(s, sit0, calls0) ==
  LET sit1 == SkipLeadingSpaces(s, sit0)
  IN IF match_token(left_bra, s, sit1)
     THEN [err |-> SyntaxErr("Reaction starts with another reaction",
                             Rpos(s, sit1)),
           sit |-> sit1, node |-> ReactionNode(<<>>, <<>>), calls |-> calls0]
     ELSE LET st == reaction_finish(s, reaction_scan(s,
                      [sit |-> sit1, start |-> sit1, cur |-> "reactants",
                       reactants |-> <<>>, products |-> <<>>,
                       calls |-> calls0, err |-> NoError, done |-> FALSE]))
          IN [err |-> st.err, sit |-> st.sit,
              node |-> ReactionNode(st.reactants, st.products),
              calls |-> st.calls]

(***************************************************************************)
(* decay::decay(sit, end, builder)                                         *)
(* The scan state is [sit, start, fill_products, has_head, head, products, *)
(* calls, err, done]: has_head / head are the std::optional m_head.        *)
(***************************************************************************)
\* fill_head_func: m_head.emplace(builder({start, sit}))
fill_head_func(s, st) ==
  LET text == Sub(s, st.start, st.sit)
  IN [st EXCEPT !.calls = Append(@, text), !.has_head = TRUE,
                !.head = builder(text)]

\* fill_products_func: m_products.push_back(element built from {start, sit})
fill_products_func(s, st) ==
  LET text == Sub(s, st.start, st.sit)
  IN [st EXCEPT !.calls = Append(@, text),
                !.products = Append(@, ElementNode(builder(text)))]

RECURSIVE decay_ctor(_, _, _)
RECURSIVE decay_scan(_, _)

\* one iteration of the scanning loop of the decay constructor
decay_step(s, st) ==
  IF match_token(space, s, st.sit) THEN
    IF st.sit = st.start
    THEN [st EXCEPT !.sit = @ + 1, !.start = st.sit + 1]
    ELSE IF ~st.has_head
    THEN [fill_head_func(s, st) EXCEPT !.sit = @ + Len(space),
                                       !.start = st.sit + Len(space)]
    ELSE IF st.fill_products
    THEN [fill_products_func(s, st) EXCEPT !.sit = @ + Len(space),
                                           !.start = st.sit + Len(space)]
    ELSE Throw(st, "Arrow expected", Rpos(s, st.start))
  ELSE IF match_token(left_bra, s, st.sit) THEN
    IF st.fill_products
    THEN LET r == decay_ctor(s, st.sit + Len(left_bra), st.calls)
         IN IF r.err # NoError
            THEN [st EXCEPT !.err = r.err, !.done = TRUE, !.calls = r.calls,
                            !.sit = r.sit]
            ELSE LET st2 == [st EXCEPT !.products = Append(@, r.node),
                                       !.sit = r.sit, !.calls = r.calls]
                 IN IF ~match_token(right_bra, s, st2.sit - Len(right_bra))
                    THEN Throw(st2, "Expected closing braces", Rpos(s, st2.sit))
                    ELSE st2
    ELSE Throw(st, "Specifying a decay as head", Rpos(s, st.start))
  ELSE IF match_token(right_bra, s, st.sit) THEN
    IF st.sit # st.start /\ (~st.has_head \/ ~st.fill_products)
    THEN Throw(st, "Invalid syntax", Rpos(s, st.sit))
    ELSE LET st2 == IF st.sit # st.start THEN fill_products_func(s, st) ELSE st
         IN [st2 EXCEPT !.sit = @ + Len(right_bra),
                        !.start = st.sit + Len(right_bra), !.done = TRUE]
  ELSE IF match_token(arrow, s, st.sit) THEN
    IF st.fill_products
    THEN Throw(st, "Duplicated arrow", Rpos(s, st.sit))
    ELSE IF st.sit # st.start
    THEN [fill_head_func(s, st) EXCEPT !.sit = @ + Len(arrow),
                                       !.start = st.sit + Len(arrow),
                                       !.fill_products = TRUE]
    ELSE IF ~st.has_head
    THEN Throw(st, "Missing head particle", Rpos(s, st.sit))
    ELSE [st EXCEPT !.sit = @ + Len(arrow), !.start = st.sit + Len(arrow),
                    !.fill_products = TRUE]
  ELSE [st EXCEPT !.sit = @ + 1]

\* while (sit != end) { ... }
decay_scan(s, st) ==
  IF st.done \/ st.sit = Len(s) + 1
  THEN st
  ELSE decay_scan(s, decay_step(s, st))

\* the statements after the scanning loop
decay_finish(s, st) ==
  IF st.err # NoError THEN st
  ELSE IF ~st.has_head
  THEN Throw(st, "No elements have been parsed", Rpos(s, st.start))
  ELSE IF Len(st.products) = 0
  THEN Throw(st, "Expected products", Rpos(s, st.sit))
  ELSE IF st.sit # st.start
  THEN IF st.fill_products
       THEN fill_products_func(s, st)
       ELSE Throw(st, "Arrow expected", Rpos(s, st.sit))
  ELSE st

\* the constructor from the string iterators; start is taken before the
\* leading spaces are removed
decay_ctor(s, sit0, calls0) ==
  LET sit1 == SkipLeadingSpaces(s, sit0)
  IN IF match_token(left_bra, s, sit1)
     THEN [err |-> SyntaxErr("Decay starts with another decay", Rpos(s, sit1)),
           sit |-> sit1, node |-> DecayNode(<<>>, <<>>), calls |-> calls0]
     ELSE LET st == decay_finish(s, decay_scan(s,
                      [sit |-> sit1, start |-> sit0, fill_products |-> FALSE,
                       has_head |-> FALSE, head |-> <<>>, products |-> <<>>,
                       calls |-> calls0, err |-> NoError, done |-> FALSE]))
          IN [err |-> st.err, sit |-> st.sit,
              node |-> DecayNode(st.head, st.products),
              calls |-> st.calls]

(***************************************************************************)
(* make_reaction_for / make_decay_for: the constructor runs on the whole   *)
(* string; an internal __syntax_error is converted by update(str) into the *)
(* public syntax_error whose text mark_error composes.                     *)
(***************************************************************************)
\* mark_error(str, msg, rpos): msg, ":\n ", str, "\n", ps + 1 spaces, "^"
mark_error(str, msg, rpos) ==
  [msg |-> msg, str |-> str, nspaces |-> (Len(str) - rpos) + 1]

\* make_reaction_for without the catch clause
make_reaction_for_NoCatch(str) ==
  LET r == reaction_ctor(str, 1, <<>>)
  IN IF r.err # NoError
     THEN [status |-> "__syntax_error",
           what |-> [msg |-> r.err.msg, str |-> <<>>, nspaces |-> 0],
           tree |-> ReactionNode(<<>>, <<>>), sit |-> r.sit, calls |-> r.calls]
     ELSE [status |-> "ok", what |-> mark_error(<<>>, "", 0),
           tree |-> r.node, sit |-> r.sit, calls |-> r.calls]

make_reaction_for(str) ==
  LET r == reaction_ctor(str, 1, <<>>)
  IN IF r.err # NoError
     THEN [status |-> "syntax_error",
           what |-> mark_error(str, r.err.msg, r.err.rpos),
           tree |-> ReactionNode(<<>>, <<>>), sit |-> r.sit, calls |-> r.calls]
     ELSE [status |-> "ok", what |-> mark_error(<<>>, "", 0),
           tree |-> r.node, sit |-> r.sit, calls |-> r.calls]

make_decay_for(str) ==
  LET r == decay_ctor(str, 1, <<>>)
  IN IF r.err # NoError
     THEN [status |-> "syntax_error",
           what |-> mark_error(str, r.err.msg, r.err.rpos),
           tree |-> DecayNode(<<>>, <<>>), sit |-> r.sit, calls |-> r.calls]
     ELSE [status |-> "ok", what |-> mark_error(<<>>, "", 0),
           tree |-> r.node, sit |-> r.sit, calls |-> r.calls]

(***************************************************************************)
(* Equality of trees: check_nodes, reaction::operator==, decay::operator== *)
(* A comparison yields [res, cast_ok]: cast_ok is FALSE when a node was    *)
(* down-cast to a kind that is not its own, after which res is undefined.  *)
(***************************************************************************)
RECURSIVE check_nodes(_, _)
RECURSIVE reaction_eq(_, _)
RECURSIVE decay_eq(_, _)
RECURSIVE check_nodes_inner(_, _, _, _, _)

\* the switch of check_nodes: first[i] against second[i], both taken as
\* being of the kind of first[i]
compare_as(a, b) ==
  IF b.type # a.type THEN [res |-> FALSE, cast_ok |-> FALSE]
  ELSE IF a.type = "element" THEN [res |-> a.text = b.text, cast_ok |-> TRUE]
  ELSE IF a.type = "reaction" THEN reaction_eq(a, b)
  ELSE decay_eq(a, b)

\* the loop over j for a fixed i; the state is [mask, cast_ok]
check_nodes_inner(first, second, i, j, acc) ==
  IF j > Len(first) THEN acc
  ELSE IF acc.mask[j] THEN check_nodes_inner(first, second, i, j + 1, acc)
  ELSE IF second[j].type # first[i].type
  THEN check_nodes_inner(first, second, i, j + 1, acc)
  ELSE LET c == compare_as(first[i], second[i])
       IN check_nodes_inner(first, second, i, j + 1,
            [mask |-> [acc.mask EXCEPT ![j] = c.res],
             cast_ok |-> acc.cast_ok /\ c.cast_ok])

\* the loop over i returns false right after the first run of the inner loop
check_nodes(first, second) ==
  IF Len(first) # Len(second) THEN [res |-> FALSE, cast_ok |-> TRUE]
  ELSE IF Len(first) = 0 THEN [res |-> TRUE, cast_ok |-> TRUE]
  ELSE LET acc == check_nodes_inner(first, second, 1, 1,
                    [mask |-> [k \in 1..Len(first) |-> FALSE],
                     cast_ok |-> TRUE])
       IN [res |-> FALSE, cast_ok |-> acc.cast_ok]

\* reaction::operator==
reaction_eq(a, b) ==
  IF Len(a.reactants) # Len(b.reactants) \/ Len(a.products) # Len(b.products)
  THEN [res |-> FALSE, cast_ok |-> TRUE]
  ELSE LET r == check_nodes(a.reactants, b.reactants)
       IN IF ~r.res THEN r ELSE check_nodes(a.products, b.products)

\* decay::operator==
decay_eq(a, b) ==
  IF Len(a.products) # Len(b.products) THEN [res |-> FALSE, cast_ok |-> TRUE]
  ELSE IF a.head # b.head THEN [res |-> FALSE, cast_ok |-> TRUE]
  ELSE check_nodes(a.products, b.products)

(***************************************************************************)
(* The element database (database.hpp).                                    *)
(*                                                                         *)
(* An element has a name, an id and the rest of its fields (data).  A file *)
(* is a sequence of comment lines followed by fixed-width data lines; a    *)
(* data line holds the text of the name, id and data columns.  The name    *)
(* and id columns of every data line are filled.  The text "x" of an id    *)
(* column is not a number and the text "?" of a data column does not       *)
(* convert.  The file at "norecords" holds a comment line and no data      *)
(* line, the file at "nobytes" holds nothing.                              *)
(***************************************************************************)
Names == {"a", "b", "c"}
Ids == {1, 2, 3}

Line(n, i, d) == [name |-> n, id |-> i, data |-> d]
Element(n, i, d) == [name |-> n, id |-> i, data |-> d]

\* the files of the model, by path; the path "" names no file and the file
\* at "missing" cannot be opened
File(readable, comments, lines) ==
  [readable |-> readable, comments |-> comments, lines |-> lines]

FileSystem ==
  [p \in {"", "missing", "p1", "p2", "p3", "baddata", "badid", "norecords",
           "nobytes"} |->
     CASE p = "" -> File(FALSE, 0, <<>>)
       [] p = "missing" -> File(FALSE, 0, <<>>)
       [] p = "p1" -> File(TRUE, 1, <<Line("a", "1", "f"), Line("b", "2", "f")>>)
       [] p = "p2" -> File(TRUE, 0, <<Line("b", "2", "g"), Line("c", "3", "f")>>)
       [] p = "p3" -> File(TRUE, 2, <<Line("c", "1", "f")>>)
       [] p = "baddata" ->
            File(TRUE, 0, <<Line("a", "1", "f"), Line("c", "3", "?")>>)
       [] p = "badid" ->
            File(TRUE, 1, <<Line("b", "x", "f"), Line("c", "3", "f")>>)
       [] p = "norecords" -> File(TRUE, 1, <<>>)
       [] p = "nobytes" -> File(TRUE, 0, <<>>)]

Paths == DOMAIN FileSystem

\* the elements a caller registers
UserElements == {Element(n, i, "u") : n \in Names, i \in Ids}

\* most elements registered by the user at a time
MaxUser == 3

\* registered and loaded are history: the elements registered with success
\* since the cache was last cleared, and the elements decoded by the last
\* enable_cache that read the file with success
VARIABLES m_db, m_vector, m_separator, files, ret, registered, loaded, alive

dvars == <<m_db, m_vector, m_separator, files, ret, registered, loaded, alive>>

\* no call was made yet
NoRet ==
  [op |-> "none", arg |-> <<>>, was |-> "empty", status |-> "ok",
   value |-> <<>>]

\* the database object
Db == [m_db |-> m_db, m_vector |-> m_vector, m_separator |-> m_separator]

\* fields::read_field on the name column: a string is taken as it is
read_field_name(line) == [sc |-> "success", value |-> line.name]

\* fields::read_field on the id column: std::stoi of the text
read_field_id(line) ==
  CASE line.id = "1" -> [sc |-> "success", value |-> 1]
    [] line.id = "2" -> [sc |-> "success", value |-> 2]
    [] line.id = "3" -> [sc |-> "success", value |-> 3]
    [] OTHER -> [sc |-> "failed", value |-> 0]

\* fields::read_field on the remaining columns
read_field_data(line) ==
  IF line.data = "?" THEN [sc |-> "failed", value |-> ""]
  ELSE [sc |-> "success", value |-> line.data]

\* database::read_element: every field of the line, in schema order; the
\* first field that fails makes it throw database_error
read_element(line) ==
  LET n == read_field_name(line)
      i == read_field_id(line)
      d == read_field_data(line)
  IN IF n.sc = "failed" \/ i.sc = "failed" \/ d.sc = "failed"
     THEN [ok |-> FALSE, el |-> Element("", 0, "")]
     ELSE [ok |-> TRUE, el |-> Element(n.value, i.value, d.value)]

\* cache::status
status(d) ==
  IF Len(d.m_vector) # 0
  THEN IF d.m_separator = 0 THEN "user" ELSE "full"
  ELSE "empty"

\* [user_registered_cbegin(), user_registered_cend())
user_registered(d) == SubSeq(d.m_vector, d.m_separator + 1, Len(d.m_vector))

\* cache::user_registered_size
user_registered_size(d) == Len(d.m_vector) - d.m_separator

\* open_database that never throws
open_database_NoCheck(d) == "ok"

\* database::open_database
open_database(d) ==
  IF d.m_db = "" THEN "The database has not been specified"
  ELSE IF ~files[d.m_db].readable THEN "Unable to access the database"
  ELSE "ok"

\* database::skip_commented_lines: it reads characters until one is not '*'.
\* At the end of a file get(c) leaves c as it was: after a comment line c is
\* still '*' and the loop never ends ("hang"); in a file without any
\* character c was never set ("uninit").
skip_commented_lines(d) ==
  IF Len(files[d.m_db].lines) > 0 THEN "ok"
  ELSE IF files[d.m_db].comments > 0 THEN "hang"
  ELSE "uninit"

\* the data lines of the file, which follow the comment lines that
\* skip_commented_lines passes over
data_lines(d) == files[d.m_db].lines

\* the number of data lines counted with file.ignore(line_size + 1)
count_lines(d) == Len(data_lines(d))

\* the predicate of the two find_if: same name or same id
clashes(el, other) == el.name = other.name \/ el.id = other.id

\* std::find_if(...) != end over a sequence of elements
found_clash(q, el) == \E k \in 1..Len(q) : clashes(q[k], el)

\* the outcome of an operation: what is thrown (or "ok"), the value
\* returned, the database object afterwards, whether the outcome rests on
\* the value of an uninitialised variable and the database object at the
\* time that variable is read
Outcome(st, value, d) ==
  [status |-> st, value |-> value, db |-> d, ub |-> FALSE, pre |-> d]

\* the outcome of an operation that called skip_commented_lines and whose
\* outcome is o when skip_commented_lines returns: it never returns, or o
\* rests on the value of a character that was never set (ub)
after_skip(d, o) ==
  CASE skip_commented_lines(d) = "hang" -> Outcome("hang", <<>>, d)
    [] skip_commented_lines(d) = "uninit" -> [o EXCEPT !.ub = TRUE, !.pre = d]
    [] OTHER -> o

\* cache::clear
clear(d) == [d EXCEPT !.m_vector = <<>>, !.m_separator = 0]

\* clear_database_elements that erases the user elements too
clear_database_elements_EraseAll(d) ==
  [d EXCEPT !.m_vector = <<>>, !.m_separator = 0]

\* cache::clear_database_elements
clear_database_elements(d) ==
  [d EXCEPT !.m_vector = user_registered(d), !.m_separator = 0]

\* the loop of cache::add_database_elements over the n lines counted: the
\* elements read so far are in new_cache
RECURSIVE add_database_loop(_, _, _, _)
add_database_loop(d, lines, i, new_cache) ==
  IF i > Len(lines) THEN [status |-> "ok", new_cache |-> new_cache]
  ELSE LET r == read_element(lines[i])
       IN IF ~r.ok
          THEN [status |-> "database_error", new_cache |-> new_cache]
          ELSE IF user_registered_size(d) # 0
                  /\ found_clash(user_registered(d), r.el)
          THEN \* the message is built from new_cache.back()
               IF Len(new_cache) = 0
               THEN [status |-> "undefined", new_cache |-> new_cache]
               ELSE [status |-> "database_error", new_cache |-> new_cache]
          ELSE add_database_loop(d, lines, i + 1, Append(new_cache, r.el))

\* add_database_elements that puts the user elements before those of the file
add_database_elements_UsersFirst(d, lines) ==
  LET r == add_database_loop(d, lines, 1, <<>>)
  IN IF r.status # "ok" THEN Outcome(r.status, <<>>, d)
     ELSE Outcome("ok", <<>>,
                  [d EXCEPT !.m_vector = user_registered(d) \o r.new_cache,
                            !.m_separator = Len(lines)])

\* cache::add_database_elements
add_database_elements(d, lines) ==
  LET r == add_database_loop(d, lines, 1, <<>>)
  IN IF r.status # "ok" THEN Outcome(r.status, <<>>, d)
     ELSE Outcome("ok", <<>>,
                  [d EXCEPT !.m_vector = r.new_cache \o user_registered(d),
                            !.m_separator = Len(lines)])

\* database::enable_cache
enable_cache(d) ==
  IF status(d) = "full" THEN Outcome("ok", <<>>, d)
  ELSE IF open_database(d) # "ok" THEN Outcome("database_error", <<>>, d)
  ELSE after_skip(d, add_database_elements(d, data_lines(d)))

\* disable_cache that resets the separator and erases nothing
disable_cache_KeepsFile(d) == Outcome("ok", <<>>, [d EXCEPT !.m_separator = 0])

\* database::disable_cache
disable_cache(d) == Outcome("ok", <<>>, clear_database_elements(d))

\* database::clear_cache
clear_cache(d) == Outcome("ok", <<>>, clear(d))

\* database::set_database_path
set_database_path(d, s) ==
  LET d1 == [d EXCEPT !.m_db = s]
  IN IF status(d1) = "full"
     THEN enable_cache(disable_cache(d1).db)
     ELSE Outcome("ok", <<>>, d1)

\* add_user_element that counts the new element among the elements of the file
add_user_element_CountsAsFile(d, el) ==
  IF found_clash(d.m_vector, el)
  THEN Outcome("database_error", <<>>, d)
  ELSE Outcome("ok", <<>>, [d EXCEPT !.m_vector = Append(@, el),
                                     !.m_separator = @ + 1])

\* cache::add_user_element
add_user_element(d, el) ==
  IF found_clash(d.m_vector, el)
  THEN Outcome("database_error", <<>>, d)
  ELSE Outcome("ok", <<>>, [d EXCEPT !.m_vector = Append(@, el)])

\* the loop of register_element over the lines of the file: TRUE when it
\* throws (id not understood, same name or same id)
RECURSIVE register_scan_throws(_, _, _)
register_scan_throws(lines, i, el) ==
  IF i > Len(lines) THEN FALSE
  ELSE LET n == read_field_name(lines[i])
           id == read_field_id(lines[i])
       IN IF n.sc = "failed" THEN TRUE
          ELSE IF el.name = n.value THEN TRUE
          ELSE IF id.sc = "failed" THEN TRUE
          ELSE IF el.id = id.value THEN TRUE
          ELSE register_scan_throws(lines, i + 1, el)

\* register_element that checks the file whatever the status of the cache
register_element_AlwaysScans(d, el) ==
  IF open_database(d) # "ok" THEN Outcome("database_error", <<>>, d)
  ELSE after_skip(d, IF register_scan_throws(data_lines(d), 1, el)
                     THEN Outcome("database_error", <<>>, d)
                     ELSE add_user_element(d, el))

\* database::register_element
register_element(d, el) ==
  IF status(d) = "full" THEN add_user_element(d, el)
  ELSE IF open_database(d) # "ok" THEN Outcome("database_error", <<>>, d)
  ELSE after_skip(d, IF register_scan_throws(data_lines(d), 1, el)
                     THEN Outcome("database_error", <<>>, d)
                     ELSE add_user_element(d, el))

\* the loop of all_elements that reads the count lines
RECURSIVE read_all(_, _, _)
read_all(lines, i, out) ==
  IF i > Len(lines) THEN [ok |-> TRUE, out |-> out]
  ELSE LET r == read_element(lines[i])
       IN IF ~r.ok THEN [ok |-> FALSE, out |-> out]
          ELSE read_all(lines, i + 1, Append(out, r.el))

\* all_elements that keeps in the cache the elements it read from the file
all_elements_FillsCache(d) ==
  IF status(d) = "full" THEN Outcome("ok", d.m_vector, d)
  ELSE IF open_database(d) # "ok" THEN Outcome("database_error", <<>>, d)
  ELSE LET r == read_all(data_lines(d), 1, <<>>)
       IN after_skip(d, IF ~r.ok THEN Outcome("database_error", <<>>, d)
                        ELSE Outcome("ok", r.out \o d.m_vector,
                                     [d EXCEPT !.m_vector = r.out \o @,
                                               !.m_separator = Len(r.out)]))

\* all_elements that leaves out the cached elements when it reads the file
all_elements_NoUser(d) ==
  IF status(d) = "full" THEN Outcome("ok", d.m_vector, d)
  ELSE IF open_database(d) # "ok" THEN Outcome("database_error", <<>>, d)
  ELSE LET r == read_all(data_lines(d), 1, <<>>)
       IN after_skip(d, IF ~r.ok THEN Outcome("database_error", <<>>, d)
                        ELSE Outcome("ok", r.out, d))

\* database::all_elements
all_elements(d) ==
  IF status(d) = "full" THEN Outcome("ok", d.m_vector, d)
  ELSE IF open_database(d) # "ok" THEN Outcome("database_error", <<>>, d)
  ELSE LET r == read_all(data_lines(d), 1, <<>>)
       IN after_skip(d, IF ~r.ok THEN Outcome("database_error", <<>>, d)
                        ELSE Outcome("ok", r.out \o d.m_vector, d))

\* the elements that the reader handed to add_database_elements returns for
\* the count lines of the file, in the order of the lines
decoded(d) == read_all(data_lines(d), 1, <<>>).out

\* el.get<Field>() for the two key fields
get(field, el) == IF field = "name" THEN el.name ELSE el.id

\* read_field<Field::range_type> for the two key fields
read_key(field, line) ==
  IF field = "name" THEN read_field_name(line) ELSE read_field_id(line)

\* the range-for of access over the cache: the first element whose field
\* equals v
RECURSIVE access_cache(_, _, _, _)
access_cache(q, i, field, v) ==
  IF i > Len(q) THEN <<>>
  ELSE IF get(field, q[i]) = v THEN <<q[i]>>
  ELSE access_cache(q, i + 1, field, v)

\* the loop of access over the lines of the file
RECURSIVE access_file(_, _, _, _, _)
access_file(d, lines, i, field, v) ==
  IF i > Len(lines) THEN Outcome("lookup_error", <<>>, d)
  ELSE LET ref == read_key(field, lines[i])
       IN IF ref.sc = "failed" THEN Outcome("database_error", <<>>, d)
          ELSE IF ref.value = v
          THEN LET r == read_element(lines[i])
               IN IF r.ok THEN Outcome("ok", <<r.el>>, d)
                  ELSE Outcome("database_error", <<>>, d)
          ELSE access_file(d, lines, i + 1, field, v)

\* access that does not fall through to the file when the cache holds user
\* elements only
access_NoFallthrough(d, field, v) ==
  LET hit == access_cache(d.m_vector, 1, field, v)
  IN IF status(d) = "full" \/ status(d) = "user"
     THEN IF hit # <<>> THEN Outcome("ok", hit, d)
          ELSE Outcome("lookup_error", <<>>, d)
     ELSE IF open_database(d) # "ok" THEN Outcome("database_error", <<>>, d)
     ELSE after_skip(d, access_file(d, data_lines(d), 1, field, v))

\* database::access<Field>(v)
access(d, field, v) ==
  LET hit == access_cache(d.m_vector, 1, field, v)
  IN IF status(d) = "full"
     THEN IF hit # <<>> THEN Outcome("ok", hit, d)
          ELSE Outcome("lookup_error", <<>>, d)
     ELSE IF status(d) = "user" /\ hit # <<>> THEN Outcome("ok", hit, d)
     ELSE IF open_database(d) # "ok" THEN Outcome("database_error", <<>>, d)
     ELSE after_skip(d, access_file(d, data_lines(d), 1, field, v))

(***************************************************************************)
(* Inputs of the grammar engine: every string of at most MaxLen characters *)
(* and the strings written from a description (a "form") of a process:     *)
(* the items of the two sides, the number of spaces between two items and  *)
(* the number of spaces on the left and on the right of the arrow.  An     *)
(* item is a plain element or a brace group holding a brace-free process.  *)
(***************************************************************************)
Spaces(n) == [k \in 1..n |-> " "]

SeqsUpTo(S, n) == UNION {[1..k -> S] : k \in 1..n}

RawInputs == UNION {[1..k -> Alphabet] : k \in 0..MaxLen}

\* the plain elements of the generated processes; one ends with a dash
Elems == {<<"A">>, <<"B", "-">>}

RECURSIVE Join(_, _)
Join(texts, sep) ==
  IF Len(texts) = 0 THEN <<>>
  ELSE IF Len(texts) = 1 THEN texts[1]
  ELSE texts[1] \o sep \o Join(Tail(texts), sep)

SidesText(rs, ps, gap, al, ar) ==
  Join(rs, Spaces(gap)) \o Spaces(al) \o arrow \o Spaces(ar)
    \o Join(ps, Spaces(gap))

ElemItem(e) == [group |-> FALSE, text |-> e, rs |-> <<>>, ps |-> <<>>]

GroupItem(rs, ps, a, pad) ==
  [group |-> TRUE,
   text |-> left_bra \o Spaces(pad) \o SidesText(rs, ps, 1, a, a)
              \o Spaces(pad) \o right_bra,
   rs |-> rs, ps |-> ps]

ItemTexts(items) == [k \in 1..Len(items) |-> items[k].text]

FormText(f) == SidesText(ItemTexts(f.rs), ItemTexts(f.ps), f.gap, f.al, f.ar)

NoForm == [rs |-> <<>>, ps |-> <<>>, gap |-> 0, al |-> 0, ar |-> 0]

\* brace-free processes
FlatSides == {[k \in 1..Len(q) |-> ElemItem(q[k])] : q \in SeqsUpTo(Elems, MaxItems)}

FlatForms ==
  [rs : FlatSides, ps : FlatSides, gap : 1..MaxGap, al : 0..MaxGap,
   ar : 0..MaxGap]

\* the brace groups written in the generated processes
Groups ==
  { GroupItem(<<<<"B">>>>, <<<<"A">>>>, 0, 0),
    GroupItem(<<<<"B">>>>, <<<<"A">>, <<"B">>>>, 1, 0),
    GroupItem(<<<<"A">>, <<"B">>>>, <<<<"B">>>>, 1, 0),
    GroupItem(<<<<"B">>>>, <<<<"A">>>>, 1, 1) }

NestedItems == {ElemItem(<<"A">>)} \cup Groups

NestedForms ==
  { f \in [rs : { <<ElemItem(<<"A">>)>>,
                  <<ElemItem(<<"A">>), ElemItem(<<"B">>)>> }
                \cup { <<ElemItem(<<"A">>), g>> : g \in Groups }
                \cup { <<g>> : g \in Groups },
           ps : SeqsUpTo(NestedItems, MaxItems),
           gap : {1}, al : {0, 1}, ar : {0, 1}] :
      /\ f.al = f.ar
      /\ (\E k \in 1..Len(f.rs) : f.rs[k].group)
           \/ (\E j \in 1..Len(f.ps) : f.ps[j].group) }

Forms == FlatForms \cup NestedForms

\* k times the text "A->{", then the process "A->B"
RECURSIVE Opened(_)
Opened(k) ==
  IF k = 0 THEN <<"A">> \o arrow \o <<"B">>
  ELSE <<"A">> \o arrow \o left_bra \o Opened(k - 1)

\* c closing braces
Closers(c) == [j \in 1..c |-> "}"]

\* processes nested up to MaxDepth groups deep, written with all, some or
\* none of their closing braces or with one closing brace too many, and
\* with or without an element after the last brace
DeepInputs ==
  { Opened(k) \o Closers(c) \o t :
      k \in 1..MaxDepth, c \in 0..(MaxDepth + 1), t \in {<<>>, <<" ", "B">>} }

\* brace-free processes written with a second arrow: the two sides, and
\* between the two arrows nothing or one element
MultiArrowInputs ==
  { Join(ItemTexts(f.rs), space) \o Spaces(f.al) \o arrow \o Spaces(f.ar)
      \o mid \o Spaces(f.al) \o arrow \o Spaces(f.ar)
      \o Join(ItemTexts(f.ps), space) :
      f \in {g \in FlatForms : g.gap = 1 /\ g.al <= 1 /\ g.ar <= 1},
      mid \in {<<>>} \cup Elems }

Cases ==
  {[text |-> s, form |-> NoForm] :
     s \in RawInputs \cup DeepInputs \cup MultiArrowInputs}
    \cup {[text |-> FormText(f), form |-> f] : f \in Forms}

\* the number of occurrences of x in the sequence q
Count(q, x) == Cardinality({k \in 1..Len(q) : q[k] = x})

\* the two sequences hold the same items, possibly in another order
IsPermutation(p, q) ==
  /\ Len(p) = Len(q)
  /\ \A k \in 1..Len(p) : Count(p, p[k]) = Count(q, p[k])

\* the two sequences have the same length and differ at one position only
DifferAtOne(p, q) ==
  /\ Len(p) = Len(q)
  /\ Cardinality({k \in 1..Len(p) : p[k] # q[k]}) = 1

\* the forms written with single spaces; such a form is compared with the
\* forms that permute its sides and with those that change one product
CanonForms == {g \in Forms : g.gap = 1 /\ g.al = 1 /\ g.ar = 1}

Partners(f) ==
  IF f \in CanonForms
  THEN {g \in CanonForms :
          \/ IsPermutation(g.rs, f.rs) /\ IsPermutation(g.ps, f.ps)
          \/ g.rs = f.rs /\ DifferAtOne(g.ps, f.ps)}
  ELSE {}

(***************************************************************************)
(* Decoding of the columns of a line (fields.hpp).                         *)
(*                                                                         *)
(* A line is a string; the functions of std::string keep the 0-based       *)
(* indexes of the code, character i of s being s[i + 1].  A range is       *)
(* [min, max], the two template arguments of fields::range.  The type to   *)
(* convert to is "int" or "string".  A conversion yields [status, value];  *)
(* the value is that of the out parameter after a success and NoValue      *)
(* otherwise.  Numbers stay below the width of int, so that std::stoi      *)
(* never throws std::out_of_range here.                                    *)
(***************************************************************************)
\* longest line that is decoded
MaxLine == 4
\* largest column index a range ends at
MaxCol == 4

\* std::string::npos scaled down to 16 bits, above every index of the model
npos == 65535

At(s, i) == s[i + 1]

\* s.find_first_not_of(' ', pos)
find_first_not_of(s, pos) ==
  LET found == {i \in pos..(Len(s) - 1) : At(s, i) # " "}
  IN IF found = {} THEN npos
     ELSE CHOOSE i \in found : \A j \in found : i <= j

\* s.find_last_not_of(' ', pos): the search covers the indexes 0..pos,
\* the character at pos included
find_last_not_of(s, pos) ==
  LET last == IF pos < Len(s) - 1 THEN pos ELSE Len(s) - 1
      found == {i \in 0..last : At(s, i) # " "}
  IN IF found = {} THEN npos
     ELSE CHOOSE i \in found : \A j \in found : j <= i

\* s.substr(b, n) for b <= s.size()
substr(s, b, n) ==
  LET e == IF b + n < Len(s) THEN b + n ELSE Len(s)
  IN SubSeq(s, b + 1, e)

Digits == {"1", "2"}

DigitValue(c) == IF c = "1" THEN 1 ELSE 2

RECURSIVE DigitRun(_, _)
\* number of digits of s from position k (1-based) on
DigitRun(s, k) ==
  IF k <= Len(s) /\ s[k] \in Digits THEN 1 + DigitRun(s, k + 1) ELSE 0

RECURSIVE Decimal(_)
Decimal(ds) ==
  IF ds = <<>> THEN 0
  ELSE 10 * Decimal(SubSeq(ds, 1, Len(ds) - 1)) + DigitValue(ds[Len(ds)])

\* std::stoi(s): spaces, an optional sign and the longest run of digits;
\* what follows the digits is ignored, no digit is std::invalid_argument
stoi(s) ==
  LET sp == IF find_first_not_of(s, 0) = npos THEN Len(s)
            ELSE find_first_not_of(s, 0)
      signed == sp < Len(s) /\ At(s, sp) = "-"
      first == IF signed THEN sp + 2 ELSE sp + 1
      n == DigitRun(s, first)
      v == Decimal(SubSeq(s, first, first + n - 1))
  IN IF n = 0 THEN [ok |-> FALSE, value |-> 0]
     ELSE [ok |-> TRUE, value |-> IF signed THEN 0 - v ELSE v]

NoValue == "none"

FieldTypes == {"int", "string"}

\* detail::string_to_type(out, s) for int and for std::string
string_to_type(T, s) ==
  IF s = <<>> THEN [status |-> "empty", value |-> NoValue]
  ELSE IF T = "string" THEN [status |-> "success", value |-> s]
  ELSE IF stoi(s).ok THEN [status |-> "success", value |-> stoi(s).value]
  ELSE [status |-> "failed", value |-> NoValue]

\* read_field<Range>(out, s) of a plain field
read_field(R, T, s) ==
  LET b == find_first_not_of(s, R.min)
      e == (find_last_not_of(s, R.max) + 1) % (npos + 1)
  IN IF b >= R.max THEN [status |-> "empty", value |-> NoValue]
     ELSE string_to_type(T, substr(s, b, e - b))

\* the way the three readers of composite fields combine the status codes
\* of their members
combine(parts) ==
  IF \E k \in 1..Len(parts) : parts[k].status = "empty"
    THEN [status |-> "failed", value |-> NoValue]
  ELSE IF \E k \in 1..Len(parts) : parts[k].status = "failed"
    THEN [status |-> "failed", value |-> NoValue]
  ELSE [status |-> "success",
        value |-> [k \in 1..Len(parts) |-> parts[k].value]]

\* read_field<Ranges>(value_and_error<T> &, s): Ranges holds three ranges
\* (static_assert), the first two are read
read_field_value_and_error(Rs, T, s) ==
  LET b == find_first_not_of(s, Rs[1].min)
  IN IF b >= Rs[2].max THEN [status |-> "empty", value |-> NoValue]
     ELSE combine(<<read_field(Rs[1], T, s), read_field(Rs[2], T, s)>>)

\* read_field<Ranges>(value_and_error_with_tag<ValueType, TagType> &, s)
read_field_value_and_error_with_tag(Rs, T, TagType, s) ==
  LET b == find_first_not_of(s, Rs[1].min)
  IN IF b >= Rs[3].max THEN [status |-> "empty", value |-> NoValue]
     ELSE combine(<<read_field(Rs[1], T, s), read_field(Rs[2], T, s),
                    read_field(Rs[3], TagType, s)>>)

\* read_field<Ranges>(value_and_errors<T> &, s)
read_field_value_and_errors(Rs, T, s) ==
  LET b == find_first_not_of(s, Rs[1].min)
  IN IF b >= Rs[3].max THEN [status |-> "empty", value |-> NoValue]
     ELSE combine(<<read_field(Rs[1], T, s), read_field(Rs[2], T, s),
                    read_field(Rs[3], T, s)>>)

\* overall_range_t of a collection of ranges
overall_range(Rs) == [min |-> Rs[1].min, max |-> Rs[Len(Rs)].max]

\* the lines and the ranges that are decoded
LineChars == {" ", "1", "2", "-", "x"}

Lines == {<<>>} \cup SeqsUpTo(LineChars, MaxLine)

Ranges == {R \in [min : 0..MaxCol, max : 0..MaxCol] : R.min < R.max}

\* three ranges in the order of the columns that do not overlap
RangeCollections ==
  {Rs \in [1..3 -> Ranges] : Rs[1].max <= Rs[2].min /\ Rs[2].max <= Rs[3].min}

VARIABLES fpc, fline, frange, ftype, fout

fvars == <<fpc, fline, frange, ftype, fout>>

(***************************************************************************)
(* Units (units.hpp).  A scale factor is a double of the form m * 10^e     *)
(* with an integer m that does not end with a zero; it is kept as the      *)
(* record [m, e].  The quotient of two factors is [num, den, e] for        *)
(* (num / den) * 10^e, with num / den in lowest terms.                     *)
(***************************************************************************)
energy_units == <<"eV", "keV", "MeV", "GeV", "TeV", "PeV">>

time_units ==
  <<"ys", "zs", "as", "fs", "ps", "ns", "us", "ms", "sec", "min", "hour",
    "day", "year", "ky", "My", "Gy", "Ty", "Py", "Ey", "Zy", "Yy">>

unknown_energy_units == "unknown_energy_units"

unknown_time_units == "unknown_time_units"

EnergyUnits == {energy_units[k] : k \in 1..Len(energy_units)}
                 \cup {unknown_energy_units}

TimeUnits == {time_units[k] : k \in 1..Len(time_units)}
               \cup {unknown_time_units}

RECURSIVE Normal(_)
\* m * 10^e written with an m that does not end with a zero
Normal(x) ==
  IF x.m # 0 /\ x.m % 10 = 0 THEN Normal([m |-> x.m \div 10, e |-> x.e + 1])
  ELSE x

\* the double literal m * 10^e
Factor(m, e) == Normal([m |-> m, e |-> e])

\* c * f for a literal c
Times(c, f) == Normal([m |-> c.m * f.m, e |-> c.e + f.e])

RECURSIVE GCD(_, _)
GCD(a, b) == IF b = 0 THEN a ELSE GCD(b, a % b)

\* a / b
Quotient(a, b) ==
  [num |-> a.m \div GCD(a.m, b.m), den |-> b.m \div GCD(a.m, b.m),
   e |-> a.e - b.e]

\* a switch that reaches the throw after it
NoFactor == [m |-> 0, e |-> 0]

\* scale_factor_for(energy_units)
scale_factor_for_energy(u) ==
  CASE u = "eV" -> Factor(1, 0)
    [] u = "keV" -> Factor(1, 3)
    [] u = "MeV" -> Factor(1, 6)
    [] u = "GeV" -> Factor(1, 9)
    [] u = "TeV" -> Factor(1, 12)
    [] u = "PeV" -> Factor(1, 12)
    [] OTHER -> NoFactor

RECURSIVE scale_factor_for_time(_)
\* scale_factor_for(time_units)
scale_factor_for_time(u) ==
  CASE u = "ys" -> Factor(1, -24)
    [] u = "zs" -> Factor(1, -21)
    [] u = "as" -> Factor(1, -18)
    [] u = "fs" -> Factor(1, -15)
    [] u = "ps" -> Factor(1, -12)
    [] u = "ns" -> Factor(1, -9)
    [] u = "us" -> Factor(1, -6)
    [] u = "ms" -> Factor(1, -3)
    [] u = "sec" -> Factor(1, 0)
    [] u = "min" -> Times(Factor(60, 0), scale_factor_for_time("sec"))
    [] u = "hour" -> Times(Factor(60, 0), scale_factor_for_time("min"))
    [] u = "day" -> Times(Factor(24, 0), scale_factor_for_time("hour"))
    [] u = "year" -> Times(Factor(365, 0), scale_factor_for_time("day"))
    [] u = "ky" -> Times(Factor(1, 3), scale_factor_for_time("year"))
    [] u = "My" -> Times(Factor(1, 6), scale_factor_for_time("year"))
    [] u = "Gy" -> Times(Factor(1, 9), scale_factor_for_time("year"))
    [] u = "Ty" -> Times(Factor(1, 12), scale_factor_for_time("year"))
    [] u = "Py" -> Times(Factor(1, 15), scale_factor_for_time("year"))
    [] u = "Ey" -> Times(Factor(1, 18), scale_factor_for_time("year"))
    [] u = "Zy" -> Times(Factor(1, 21), scale_factor_for_time("year"))
    [] u = "Yy" -> Times(Factor(1, 24), scale_factor_for_time("year"))
    [] OTHER -> NoFactor

\* the outcome of a call: the factor returned, or internal_error
Scaled(q) == [status |-> "ok", value |-> q]

InternalError == [status |-> "internal_error",
                  value |-> [num |-> 0, den |-> 1, e |-> 0]]

\* reference<energy_units, U>::scale_factor(u)
scale_factor_energy(U, u) ==
  IF u = U THEN Scaled(Quotient(Factor(1, 0), Factor(1, 0)))
  ELSE IF U = unknown_energy_units \/ u = unknown_energy_units
  THEN InternalError
  ELSE Scaled(Quotient(scale_factor_for_energy(U), scale_factor_for_energy(u)))

\* reference<time_units, U>::scale_factor(u)
scale_factor_time(U, u) ==
  IF u = U THEN Scaled(Quotient(Factor(1, 0), Factor(1, 0)))
  ELSE IF U = unknown_time_units \/ u = unknown_time_units
  THEN InternalError
  ELSE Scaled(Quotient(scale_factor_for_time(U), scale_factor_for_time(u)))

VARIABLES upc, uref, uarg, uout

uvars == <<upc, uref, uarg, uout>>

(***************************************************************************)
(* The comparison of lists of nodes of the Python binding (composites.hpp, *)
(* chains.hpp).  A Python node is an element with a name or a reaction     *)
(* with two lists of nodes; every object of a list is a node, so that the  *)
(* check of the object types passes.  A comparison yields a code: 1 for    *)
(* true, 0 for false, -1 for a Python error.                               *)
(***************************************************************************)
\* most nodes of a compared list
MaxNodes == 2

PyElement(n) ==
  [kind |-> "element", name |-> n, reactants |-> <<>>, products |-> <<>>]

PyReaction(rs, ps) ==
  [kind |-> "reaction", name |-> "", reactants |-> rs, products |-> ps]

PyElements == {PyElement(n) : n \in {"A", "B"}}

PyReactions ==
  {PyReaction(<<a>>, <<b>>) : a \in PyElements, b \in PyElements}

PyNodes == PyElements \cup PyReactions

PyLists == {<<>>} \cup SeqsUpTo(PyNodes, MaxNodes)

RECURSIVE compare_nodes(_, _)
RECURSIVE rich_compare(_, _)
RECURSIVE compare_nodes_inner(_, _, _, _)
RECURSIVE compare_nodes_outer(_, _, _, _)

\* ElementString_richcompare with Py_EQ
ElementString_richcompare(a, b) ==
  IF a.kind # "element" \/ b.kind # "element" THEN -1
  ELSE IF a.name = b.name THEN 1 ELSE 0

\* Reaction_richcompare with Py_EQ
Reaction_richcompare(a, b) ==
  IF a.kind # "reaction" \/ b.kind # "reaction" THEN 0
  ELSE LET code == compare_nodes(a.reactants, b.reactants)
                     * compare_nodes(a.products, b.products)
       IN IF code < 0 THEN -1 ELSE IF code # 0 THEN 1 ELSE 0

\* PyObject_RichCompare(fo, so, Py_EQ): the comparison of the type of fo
rich_compare(fo, so) ==
  IF fo.kind = "element" THEN ElementString_richcompare(fo, so)
  ELSE Reaction_richcompare(fo, so)

\* the loop over j for the object fo; the statement "return false" after
\* the if / else chain is never reached: every branch returns, breaks or
\* continues
compare_nodes_inner(fo, second, j, mask) ==
  IF j > Len(second) THEN [code |-> 1, mask |-> mask]
  ELSE IF mask[j] THEN compare_nodes_inner(fo, second, j + 1, mask)
  ELSE LET ro == rich_compare(fo, second[j])
       IN IF ro < 0 THEN [code |-> -1, mask |-> mask]
          ELSE IF ro = 1
          THEN [code |-> 1, mask |-> [mask EXCEPT ![j] = TRUE]]
          ELSE compare_nodes_inner(fo, second, j + 1, mask)

\* the loop over i
compare_nodes_outer(first, second, i, mask) ==
  IF i > Len(first) THEN 1
  ELSE LET r == compare_nodes_inner(first[i], second, 1, mask)
       IN IF r.code < 0 THEN -1
          ELSE compare_nodes_outer(first, second, i + 1, r.mask)

\* compare_nodes(first, second, Py_EQ)
compare_nodes(first, second) ==
  IF Len(first) # Len(second) THEN 0
  ELSE compare_nodes_outer(first, second, 1,
                           [k \in 1..Len(first) |-> FALSE])

VARIABLES bpc, bfirst, bsecond, bout

bvars == <<bpc, bfirst, bsecond, bout>>

(***************************************************************************)
(* The grammar engine as a state machine: one call of make_reaction or     *)
(* make_decay on an input, then one comparison of the tree with the tree   *)
(* of a second input.                                                      *)
(***************************************************************************)
VARIABLES pc, call, input, form, result, partner, eq

pvars == <<pc, call, input, form, result, partner, eq>>

vars == <<pvars, dvars, fvars, uvars, bvars>>

NoResult ==
  [status |-> "none", what |-> mark_error(<<>>, "", 0),
   tree |-> ReactionNode(<<>>, <<>>), sit |-> 0, calls |-> <<>>]

NoEq == [res |-> FALSE, cast_ok |-> TRUE]

\* no call of the grammar engine was made
GrammarIdle ==
  /\ pc = "idle" /\ call = "none" /\ input = <<>> /\ form = NoForm
  /\ result = NoResult /\ partner = NoForm /\ eq = NoEq

\* a database without path, with an empty cache, on which nothing was called
DatabaseIdle ==
  /\ m_db = "" /\ m_vector = <<>> /\ m_separator = 0 /\ files = FileSystem
  /\ ret = NoRet /\ registered = <<>> /\ loaded = <<>> /\ alive = TRUE

\* no line was decoded
FieldsIdle ==
  /\ fpc = "idle" /\ fline = <<>> /\ frange = <<>> /\ ftype = "none"
  /\ fout = [status |-> "none", value |-> NoValue]

\* no scale factor was asked for
UnitsIdle ==
  /\ upc = "idle" /\ uref = "none" /\ uarg = "none"
  /\ uout = [status |-> "none", value |-> [num |-> 0, den |-> 1, e |-> 0]]

\* no lists were compared
BindingIdle ==
  bpc = "idle" /\ bfirst = <<>> /\ bsecond = <<>> /\ bout = 0

GrammarInit ==
  GrammarIdle /\ DatabaseIdle /\ FieldsIdle /\ UnitsIdle /\ BindingIdle

\* make_reaction<string>(input)
MakeReaction ==
  /\ pc = "idle"
  /\ \E c \in Cases :
       /\ input' = c.text
       /\ form' = c.form
       /\ result' = make_reaction_for(c.text)
  /\ call' = "make_reaction"
  /\ pc' = "parsed"
  /\ UNCHANGED <<partner, eq>>
  /\ UNCHANGED <<dvars, fvars, uvars, bvars>>

\* make_decay<string>(input)
MakeDecay ==
  /\ pc = "idle"
  /\ \E c \in Cases :
       /\ input' = c.text
       /\ form' = c.form
       /\ result' = make_decay_for(c.text)
  /\ call' = "make_decay"
  /\ pc' = "parsed"
  /\ UNCHANGED <<partner, eq>>
  /\ UNCHANGED <<dvars, fvars, uvars, bvars>>

\* the outcomes of a comparison: its value, or any value after a bad cast
EqOutcomes(c) ==
  IF c.cast_ok THEN {c} ELSE {[res |-> b, cast_ok |-> FALSE] : b \in BOOLEAN}

\* result.tree == make_reaction(text of g)
CompareReaction ==
  /\ pc = "parsed" /\ call = "make_reaction" /\ result.status = "ok"
  /\ form # NoForm
  /\ \E g \in Partners(form) :
       LET other == make_reaction_for(FormText(g))
       IN /\ other.status = "ok"
          /\ partner' = g
          /\ eq' \in EqOutcomes(reaction_eq(result.tree, other.tree))
  /\ pc' = "compared"
  /\ UNCHANGED <<call, input, form, result>>
  /\ UNCHANGED <<dvars, fvars, uvars, bvars>>

\* result.tree == make_decay(text of g)
CompareDecay ==
  /\ pc = "parsed" /\ call = "make_decay" /\ result.status = "ok"
  /\ form # NoForm
  /\ \E g \in Partners(form) :
       LET other == make_decay_for(FormText(g))
       IN /\ other.status = "ok"
          /\ partner' = g
          /\ eq' \in EqOutcomes(decay_eq(result.tree, other.tree))
  /\ pc' = "compared"
  /\ UNCHANGED <<call, input, form, result>>
  /\ UNCHANGED <<dvars, fvars, uvars, bvars>>

\* the text of a tree: the nodes of a side in stored order separated by
\* single spaces, " -> " between the two sides, a nested process in braces
RECURSIVE Render(_)
RECURSIVE RenderNodes(_)
RenderNodes(nodes) ==
  IF Len(nodes) = 0 THEN <<>>
  ELSE LET first == IF nodes[1].type = "element" THEN nodes[1].text
                    ELSE left_bra \o Render(nodes[1]) \o right_bra
       IN IF Len(nodes) = 1 THEN first
          ELSE first \o space \o RenderNodes(Tail(nodes))

Render(tree) ==
  (IF tree.type = "decay" THEN tree.head ELSE RenderNodes(tree.reactants))
    \o space \o arrow \o space \o RenderNodes(tree.products)

\* make_reaction(text of result.tree) == result.tree
RoundTripReaction ==
  /\ pc = "parsed" /\ call = "make_reaction" /\ result.status = "ok"
  /\ LET again == make_reaction_for(Render(result.tree))
     IN IF again.status = "ok"
        THEN eq' \in EqOutcomes(reaction_eq(again.tree, result.tree))
        ELSE eq' = NoEq
  /\ pc' = "roundtrip"
  /\ UNCHANGED <<call, input, form, result, partner>>
  /\ UNCHANGED <<dvars, fvars, uvars, bvars>>

\* make_decay(text of result.tree) == result.tree
RoundTripDecay ==
  /\ pc = "parsed" /\ call = "make_decay" /\ result.status = "ok"
  /\ LET again == make_decay_for(Render(result.tree))
     IN IF again.status = "ok"
        THEN eq' \in EqOutcomes(decay_eq(again.tree, result.tree))
        ELSE eq' = NoEq
  /\ pc' = "roundtrip"
  /\ UNCHANGED <<call, input, form, result, partner>>
  /\ UNCHANGED <<dvars, fvars, uvars, bvars>>

GrammarNext ==
  \/ MakeReaction \/ MakeDecay \/ CompareReaction \/ CompareDecay
  \/ RoundTripReaction \/ RoundTripDecay

SpecGrammar == GrammarInit /\ [][GrammarNext]_vars

(***************************************************************************)
(* The database as a state machine: one action per public operation.  ret  *)
(* is the outcome of the last call and the status the cache had when it    *)
(* was made, registered lists the elements whose                           *)
(* registration succeeded since the cache was last cleared, alive is FALSE *)
(* once the process was ended by undefined behaviour or is in a call that  *)
(* never returns.                                                          *)
(***************************************************************************)
DatabaseInit ==
  /\ GrammarIdle /\ FieldsIdle /\ UnitsIdle /\ BindingIdle
  /\ m_db \in Paths /\ m_vector = <<>> /\ m_separator = 0
  /\ files = FileSystem /\ ret = NoRet /\ registered = <<>>
  /\ loaded = <<>> /\ alive = TRUE

\* the call returns or throws: the object and the outcome are stored
Return(op, arg, o) ==
  /\ m_db' = o.db.m_db
  /\ m_vector' = o.db.m_vector
  /\ m_separator' = o.db.m_separator
  /\ ret' = [op |-> op, arg |-> arg, was |-> status(Db), status |-> o.status,
             value |-> o.value]
  /\ alive' = TRUE

\* the call ran into undefined behaviour: it throws the error it was
\* building, or the process ends
Undefined(op, arg, o) ==
  \/ Return(op, arg, [o EXCEPT !.status = "database_error"])
  \/ /\ alive' = FALSE
     /\ ret' = [op |-> op, arg |-> arg, was |-> status(Db), status |-> "crash",
                value |-> <<>>]
     /\ UNCHANGED <<m_db, m_vector, m_separator>>

\* the call never returns
Hang(op, arg, o) ==
  /\ alive' = FALSE
  /\ m_db' = o.pre.m_db
  /\ m_vector' = o.pre.m_vector
  /\ m_separator' = o.pre.m_separator
  /\ ret' = [op |-> op, arg |-> arg, was |-> status(Db), status |-> "hang",
             value |-> <<>>]

\* a call whose outcome rests on an uninitialised character returns that
\* outcome, or never returns when the character happens to be '*'
Complete(op, arg, o) ==
  IF o.status = "undefined" THEN Undefined(op, arg, o)
  ELSE IF o.status = "hang" THEN Hang(op, arg, o)
  ELSE IF o.ub THEN Return(op, arg, o) \/ Hang(op, arg, o)
  ELSE Return(op, arg, o)

SetDatabasePath ==
  /\ alive
  /\ \E s \in Paths :
       /\ Complete("set_database_path", <<s>>, set_database_path(Db, s))
       /\ loaded' = IF status(Db) = "full" /\ ret'.status = "ok"
                    THEN decoded([Db EXCEPT !.m_db = s])
                    ELSE loaded
  /\ UNCHANGED <<files, registered>>
  /\ UNCHANGED <<pvars, fvars, uvars, bvars>>

EnableCache ==
  /\ alive
  /\ Complete("enable_cache", <<>>, enable_cache(Db))
  /\ loaded' = IF status(Db) # "full" /\ ret'.status = "ok"
               THEN decoded(Db)
               ELSE loaded
  /\ UNCHANGED <<files, registered>>
  /\ UNCHANGED <<pvars, fvars, uvars, bvars>>

DisableCache ==
  /\ alive
  /\ Complete("disable_cache", <<>>, disable_cache(Db))
  /\ UNCHANGED <<files, registered, loaded>>
  /\ UNCHANGED <<pvars, fvars, uvars, bvars>>

ClearCache ==
  /\ alive
  /\ Complete("clear_cache", <<>>, clear_cache(Db))
  /\ registered' = <<>>
  /\ UNCHANGED <<files, loaded>>
  /\ UNCHANGED <<pvars, fvars, uvars, bvars>>

RegisterElement ==
  /\ alive
  /\ \E el \in UserElements :
       LET o == register_element(Db, el)
       IN /\ o.status = "ok" => Len(registered) < MaxUser
          /\ Complete("register_element", <<el>>, o)
          /\ registered' = IF ret'.status = "ok" THEN Append(registered, el)
                           ELSE registered
  /\ UNCHANGED <<files, loaded>>
  /\ UNCHANGED <<pvars, fvars, uvars, bvars>>

AllElements ==
  /\ alive
  /\ Complete("all_elements", <<>>, all_elements(Db))
  /\ UNCHANGED <<files, registered, loaded>>
  /\ UNCHANGED <<pvars, fvars, uvars, bvars>>

\* operator()(std::string const &)
AccessByName ==
  /\ alive
  /\ \E n \in Names : Complete("access_name", <<n>>, access(Db, "name", n))
  /\ UNCHANGED <<files, registered, loaded>>
  /\ UNCHANGED <<pvars, fvars, uvars, bvars>>

\* operator()(int)
AccessById ==
  /\ alive
  /\ \E i \in Ids : Complete("access_id", <<i>>, access(Db, "id", i))
  /\ UNCHANGED <<files, registered, loaded>>
  /\ UNCHANGED <<pvars, fvars, uvars, bvars>>

DatabaseNext ==
  \/ SetDatabasePath \/ EnableCache \/ DisableCache \/ ClearCache
  \/ RegisterElement \/ AllElements \/ AccessByName \/ AccessById

SpecDatabase == DatabaseInit /\ [][DatabaseNext]_vars

(***************************************************************************)
(* The database next to a file that changes: between two calls the file at *)
(* "p1" is removed, rewritten with other records or put back.  Every call  *)
(* that reads the file opens it anew (open_database).                      *)
(***************************************************************************)
ChangedPaths == {"p1"}

FileVersions(p) ==
  {FileSystem[p], File(FALSE, 0, <<>>),
   File(TRUE, 0, <<Line("c", "3", "g")>>)}

ChangeFile ==
  /\ alive
  /\ \E p \in ChangedPaths : \E f \in FileVersions(p) :
       /\ f # files[p]
       /\ files' = [files EXCEPT ![p] = f]
       /\ ret' = [op |-> "change_file", arg |-> <<p>>, was |-> status(Db),
                  status |-> "ok", value |-> <<>>]
  /\ UNCHANGED <<m_db, m_vector, m_separator, registered, loaded, alive>>
  /\ UNCHANGED <<pvars, fvars, uvars, bvars>>

DatabaseFilesNext ==
  \/ SetDatabasePath \/ EnableCache \/ DisableCache \/ ClearCache
  \/ RegisterElement \/ AllElements \/ AccessByName \/ AccessById
  \/ ChangeFile

SpecDatabaseFiles == DatabaseInit /\ [][DatabaseFilesNext]_vars

(***************************************************************************)
(* The decoding of fields as a state machine: one call of one of the       *)
(* read_field templates on a line.  The members of the composite fields    *)
(* are arithmetic (int here), the tag is a string.                         *)
(***************************************************************************)
FieldsInit ==
  GrammarIdle /\ DatabaseIdle /\ FieldsIdle /\ UnitsIdle /\ BindingIdle

ReadField ==
  /\ fpc = "idle"
  /\ \E s \in Lines, R \in Ranges, T \in FieldTypes :
       /\ fline' = s /\ frange' = <<R>> /\ ftype' = T
       /\ fout' = read_field(R, T, s)
  /\ fpc' = "range"
  /\ UNCHANGED <<pvars, dvars, uvars, bvars>>

ReadValueAndError ==
  /\ fpc = "idle"
  /\ \E s \in Lines, Rs \in RangeCollections :
       /\ fline' = s /\ frange' = Rs
       /\ fout' = read_field_value_and_error(Rs, "int", s)
  /\ ftype' = "int"
  /\ fpc' = "value_and_error"
  /\ UNCHANGED <<pvars, dvars, uvars, bvars>>

ReadValueAndErrorWithTag ==
  /\ fpc = "idle"
  /\ \E s \in Lines, Rs \in RangeCollections :
       /\ fline' = s /\ frange' = Rs
       /\ fout' = read_field_value_and_error_with_tag(Rs, "int", "string", s)
  /\ ftype' = "int"
  /\ fpc' = "value_and_error_with_tag"
  /\ UNCHANGED <<pvars, dvars, uvars, bvars>>

ReadValueAndErrors ==
  /\ fpc = "idle"
  /\ \E s \in Lines, Rs \in RangeCollections :
       /\ fline' = s /\ frange' = Rs
       /\ fout' = read_field_value_and_errors(Rs, "int", s)
  /\ ftype' = "int"
  /\ fpc' = "value_and_errors"
  /\ UNCHANGED <<pvars, dvars, uvars, bvars>>

FieldsNext ==
  \/ ReadField \/ ReadValueAndError \/ ReadValueAndErrorWithTag
  \/ ReadValueAndErrors

SpecFields == FieldsInit /\ [][FieldsNext]_vars

(***************************************************************************)
(* The units as a state machine: one call of scale_factor of a reference   *)
(* unit U on a unit u.                                                     *)
(***************************************************************************)
UnitsInit ==
  GrammarIdle /\ DatabaseIdle /\ FieldsIdle /\ UnitsIdle /\ BindingIdle

EnergyScaleFactor ==
  /\ upc = "idle"
  /\ \E U \in EnergyUnits, u \in EnergyUnits :
       /\ uref' = U /\ uarg' = u
       /\ uout' = scale_factor_energy(U, u)
  /\ upc' = "energy"
  /\ UNCHANGED <<pvars, dvars, fvars, bvars>>

TimeScaleFactor ==
  /\ upc = "idle"
  /\ \E U \in TimeUnits, u \in TimeUnits :
       /\ uref' = U /\ uarg' = u
       /\ uout' = scale_factor_time(U, u)
  /\ upc' = "time"
  /\ UNCHANGED <<pvars, dvars, fvars, bvars>>

UnitsNext == EnergyScaleFactor \/ TimeScaleFactor

SpecUnits == UnitsInit /\ [][UnitsNext]_vars

(***************************************************************************)
(* The binding as a state machine: one comparison of two lists of nodes,   *)
(* or of two reactions, with ==.                                           *)
(***************************************************************************)
BindingInit ==
  GrammarIdle /\ DatabaseIdle /\ FieldsIdle /\ UnitsIdle /\ BindingIdle

CompareNodes ==
  /\ bpc = "idle"
  /\ \E first \in PyLists, second \in PyLists :
       /\ bfirst' = first /\ bsecond' = second
       /\ bout' = compare_nodes(first, second)
  /\ bpc' = "compare_nodes"
  /\ UNCHANGED <<pvars, dvars, fvars, uvars>>

\* reaction == reaction
ReactionRichCompare ==
  /\ bpc = "idle"
  /\ \E a \in PyReactions, b \in PyReactions :
       /\ bfirst' = <<a>> /\ bsecond' = <<b>>
       /\ bout' = Reaction_richcompare(a, b)
  /\ bpc' = "richcompare"
  /\ UNCHANGED <<pvars, dvars, fvars, uvars>>

BindingNext == CompareNodes \/ ReactionRichCompare

SpecBinding == BindingInit /\ [][BindingNext]_vars

(***************************************************************************)
(* Properties of the grammar engine                                        *)
(***************************************************************************)
IsFlat(f) ==
  /\ f # NoForm
  /\ \A k \in 1..Len(f.rs) : ~f.rs[k].group
  /\ \A k \in 1..Len(f.ps) : ~f.ps[k].group

\* the element nodes of a list of plain elements, in order
ElementNodes(items) == [k \in 1..Len(items) |-> ElementNode(items[k].text)]

\* one node per written item: an element for a plain element, a composite
\* of the given kind for a brace group
NodesMatchItems(nodes, items, kind) ==
  /\ Len(nodes) = Len(items)
  /\ \A k \in 1..Len(items) :
       IF items[k].group
       THEN /\ nodes[k].type = kind
            /\ nodes[k].products = ElementNodes([j \in 1..Len(items[k].ps) |->
                                                   ElemItem(items[k].ps[j])])
       ELSE nodes[k] = ElementNode(items[k].text)

\* the first character of the input that is not a space
RECURSIVE FirstNonSpace(_)
FirstNonSpace(s) ==
  IF Len(s) = 0 THEN EOS
  ELSE IF s[1] = " " THEN FirstNonSpace(Tail(s))
  ELSE s[1]

\* the input, after its leading spaces, begins with the arrow
RECURSIVE StartsWithArrow(_)
StartsWithArrow(s) ==
  IF Len(s) < 2 THEN FALSE
  ELSE IF s[1] = " " THEN StartsWithArrow(Tail(s))
  ELSE s[1] = "-" /\ s[2] = ">"

\* C1: two reactions whose reactant lists are permutations of each other and
\* whose product lists are permutations of each other compare equal with
\* operator==.
C1_PermutedReactionsEqual ==
  (/\ pc = "compared" /\ call = "make_reaction"
   /\ IsFlat(form) /\ IsFlat(partner)
   /\ IsPermutation(partner.rs, form.rs)
   /\ IsPermutation(partner.ps, form.ps))
  => eq.res = TRUE

\* C2: a brace group contributes exactly one composite node and nothing
\* else: on every accepted input the nodes of a side are its written items,
\* one element per plain element and one nested process per brace group.
C2_GroupIsOneNode ==
  (pc # "idle" /\ form # NoForm /\ result.status = "ok")
  => /\ call = "make_reaction"
        => /\ NodesMatchItems(result.tree.reactants, form.rs, "reaction")
           /\ NodesMatchItems(result.tree.products, form.ps, "reaction")
     /\ (call = "make_decay" /\ Len(form.rs) = 1)
        => NodesMatchItems(result.tree.products, form.ps, "decay")

\* C3: for every brace-free string r1 ... rn -> p1 ... pm (one or more
\* spaces between elements, zero or more around the arrow) make_reaction
\* succeeds with reactants [r1..rn] and products [p1..pm] in source order.
C3_FlatReaction ==
  (pc # "idle" /\ call = "make_reaction" /\ IsFlat(form))
  => /\ result.status = "ok"
     /\ result.tree = ReactionNode(ElementNodes(form.rs), ElementNodes(form.ps))

C3_Witness ==
  /\ pc = "parsed" /\ call = "make_reaction" /\ IsFlat(form)
  /\ Len(form.rs) = 2 /\ Len(form.ps) = 2 /\ form.gap = 2
  /\ form.al = 0 /\ form.ar = 1
  /\ form.rs[2].text = <<"B", "-">>
  /\ result.status = "ok" /\ Len(result.tree.products) = 2

\* C4: for every brace-free string h -> p1 ... pm with one head and m >= 1
\* products make_decay succeeds with head h and products [p1..pm] in source
\* order.
C4_FlatDecay ==
  (pc # "idle" /\ call = "make_decay" /\ IsFlat(form) /\ Len(form.rs) = 1)
  => /\ result.status = "ok"
     /\ result.tree = DecayNode(form.rs[1].text, ElementNodes(form.ps))

\* C5: an input whose first non-space character is '{', and an input in
\* which the arrow comes before any reactant has been read, make
\* make_reaction fail with a syntax error and return no tree.
C5_MalformedOpening ==
  (/\ pc # "idle" /\ call = "make_reaction"
   /\ (FirstNonSpace(input) = "{" \/ StartsWithArrow(input)))
  => /\ result.status = "syntax_error"
     /\ result.tree = ReactionNode(<<>>, <<>>)

C5_Witness ==
  /\ pc = "parsed" /\ call = "make_reaction"
  /\ FirstNonSpace(input) = "{" /\ Len(input) > MaxLen
  /\ result.status = "syntax_error"
  /\ result.what.msg = "Reaction starts with another reaction"
\* the messages of the errors thrown by the two constructors
InnerMessages ==
  {"Reaction starts with another reaction", "Expected closing braces",
   "Missing reactants", "Duplicated arrow", "Expected reactants",
   "Expected products", "Decay starts with another decay", "Arrow expected",
   "Specifying a decay as head", "Invalid syntax", "Missing head particle",
   "No elements have been parsed"}

\* the error the constructor of the call throws on the input, NoError if none
InnerError ==
  IF call = "make_reaction" THEN reaction_ctor(input, 1, <<>>).err
  ELSE decay_ctor(input, 1, <<>>).err

\* C18: a grammar violation detected at any nesting depth leaves
\* make_reaction_for / make_decay_for as the public syntax_error, never as
\* the internal __syntax_error; its text is made of the message of the
\* internal error, the complete input string and a caret line whose caret
\* stands below the input, at the position the internal error carries.
C18_SyntaxErrorSurfaces ==
  pc # "idle"
  => /\ result.status \in {"ok", "syntax_error"}
     /\ result.status = "syntax_error" <=> InnerError # NoError
     /\ result.status = "syntax_error"
          => /\ result.what.msg \in InnerMessages
             /\ result.what.msg = InnerError.msg
             /\ result.what.str = input
             /\ result.what.nspaces \in 1..(Len(input) + 1)
             /\ result.what.nspaces = (Len(input) - InnerError.rpos) + 1

\* the error was thrown by the constructor of a nested group
C18_Witness ==
  /\ pc = "parsed" /\ call = "make_reaction"
  /\ input = <<"A">> \o arrow \o left_bra \o right_bra
  /\ result.status = "syntax_error"
  /\ result.what.msg = "Expected reactants"
  /\ result.what.str = input /\ result.what.nspaces = Len(input) + 1

\* the braces of a string, read from left to right: the number of groups
\* left open at the end and whether a closing brace closed no open group
RECURSIVE BraceScan(_, _, _, _)
BraceScan(s, i, depth, stray) ==
  IF i > Len(s) THEN [open |-> depth, stray |-> stray]
  ELSE IF s[i] = "{" THEN BraceScan(s, i + 1, depth + 1, stray)
  ELSE IF s[i] = "}"
  THEN IF depth = 0 THEN BraceScan(s, i + 1, 0, TRUE)
       ELSE BraceScan(s, i + 1, depth - 1, stray)
  ELSE BraceScan(s, i + 1, depth, stray)

HasStrayClose(s) == BraceScan(s, 1, 0, FALSE).stray

HasUnclosedOpen(s) == BraceScan(s, 1, 0, FALSE).open > 0

\* C19: an input with a '}' that closes no open group, with or without text
\* after it, makes make_reaction and make_decay fail with a syntax error;
\* no tree built from the text before that brace is returned.
C19_StrayCloseRejected ==
  (pc # "idle" /\ HasStrayClose(input)) => result.status = "syntax_error"

\* C20: an input in which some '{' has no matching '}' makes make_reaction
\* and make_decay fail with a syntax error, whatever the nesting depth of
\* the group left open.
C20_UnclosedOpenRejected ==
  (pc # "idle" /\ HasUnclosedOpen(input)) => result.status = "syntax_error"

\* C21: parse / render round trip: for every valid string, parsing the text
\* of the parsed tree yields a tree that operator== reports equal to the
\* parsed tree.
C21_RoundTripEqual == pc = "roundtrip" => eq.res = TRUE

\* the string holds no brace
BraceFree(s) == \A k \in 1..Len(s) : s[k] # "{" /\ s[k] # "}"

\* the number of arrow tokens written in the string
ArrowCount(s) ==
  Cardinality({k \in 1..(Len(s) - 1) : s[k] = "-" /\ s[k + 1] = ">"})

\* C22: every brace-free input that holds two or more arrows makes
\* make_reaction and make_decay fail with a syntax error.
C22_SecondArrowRejected ==
  (pc # "idle" /\ BraceFree(input) /\ ArrowCount(input) >= 2)
  => result.status = "syntax_error"

C22_Witness ==
  /\ pc = "parsed" /\ call = "make_decay"
  /\ input = <<"A">> \o arrow \o <<"A">> \o arrow \o <<"A">>
  /\ result.status = "syntax_error" /\ result.what.msg = "Duplicated arrow"

\* C23: a decay has exactly one head: make_decay fails with a syntax error
\* for every input in which two or more elements precede the arrow, with or
\* without spaces around the arrow.
C23_SingleHead ==
  (pc # "idle" /\ call = "make_decay" /\ IsFlat(form) /\ Len(form.rs) >= 2)
  => result.status = "syntax_error"

\* the text of one element: not empty, without space, brace or arrow
CleanToken(t) ==
  /\ Len(t) > 0
  /\ \A k \in 1..Len(t) : t[k] \notin {" ", "{", "}"}
  /\ ArrowCount(t) = 0

\* C24: for every input given to make_reaction or make_decay every string
\* passed to the element builder is non-empty and holds no space, no '{',
\* no '}' and no '->'.
C24_BuilderGetsCleanTokens ==
  pc # "idle" => \A k \in 1..Len(result.calls) : CleanToken(result.calls[k])

\* C35: in check_nodes, for every pair of node lists of equal length with
\* any mix of kinds, a node is down-cast (ptr_as_element, ptr_as_reaction,
\* ptr_as_decay) only to the kind its own tag names.
C35_CastsFollowTags == pc = "compared" => eq.cast_ok

\* the positions at which a constructor starts on s: the beginning and the
\* character after every opening brace
CtorStarts(s) == {1} \cup {k + 1 : k \in {i \in 1..Len(s) : s[i] = "{"}}

\* the state in which the constructor called at sit0 enters its loop
ReactionEntry(s, sit0) ==
  [sit |-> SkipLeadingSpaces(s, sit0), start |-> SkipLeadingSpaces(s, sit0),
   cur |-> "reactants", reactants |-> <<>>, products |-> <<>>,
   calls |-> <<>>, err |-> NoError, done |-> FALSE]

DecayEntry(s, sit0) ==
  [sit |-> SkipLeadingSpaces(s, sit0), start |-> sit0,
   fill_products |-> FALSE, has_head |-> FALSE, head |-> <<>>,
   products |-> <<>>, calls |-> <<>>, err |-> NoError, done |-> FALSE]

\* the loop is left: break or throw, or sit = end
LoopLeft(s, st) == st.done \/ st.sit = Len(s) + 1

Step(kind, s, st) ==
  IF kind = "make_reaction" THEN reaction_step(s, st) ELSE decay_step(s, st)

\* more iterations than a loop on s runs if at most every second one stalls
Fuel(s) == 2 * (Len(s) + 1)

RECURSIVE Visited(_, _, _, _)
\* the states at the head of the first n iterations of the loop
Visited(kind, s, st, n) ==
  IF n = 0 \/ LoopLeft(s, st) THEN {}
  ELSE {st} \cup Visited(kind, s, Step(kind, s, st), n - 1)

RECURSIVE After(_, _, _, _)
\* the state after at most n iterations of the loop
After(kind, s, st, n) ==
  IF n = 0 \/ LoopLeft(s, st) THEN st
  ELSE After(kind, s, Step(kind, s, st), n - 1)

\* the iteration from st moves the cursor forward or leaves the loop
Advances(kind, s, st) ==
  Step(kind, s, st).sit > st.sit \/ Step(kind, s, st).done

\* the iteration from st advances, or the next one does
Progresses(kind, s, st) ==
  Advances(kind, s, st) \/ Advances(kind, s, Step(kind, s, st))

Entry(kind, s, sit0) ==
  IF kind = "make_reaction" THEN ReactionEntry(s, sit0) ELSE DecayEntry(s, sit0)

\* C31: make_reaction and make_decay terminate on every input: every
\* iteration of the scanning loop of a constructor advances the cursor,
\* leaves the loop, throws, or is followed at once by an iteration that
\* does, the cursor never passes the end, every nested constructor starts
\* and ends later in the string than the cursor of its caller, and the
\* loop is left within Fuel iterations.
C31_ScanTerminates ==
  pc # "idle" =>
    \A sit0 \in CtorStarts(input) :
      LET e == Entry(call, input, sit0)
      IN /\ \A st \in Visited(call, input, e, Fuel(input)) :
              /\ Progresses(call, input, st)
              /\ Step(call, input, st).sit \in st.sit..(Len(input) + 1)
         /\ LoopLeft(input, After(call, input, e, Fuel(input)))
         /\ e.sit >= sit0

\* a call of make_reaction returned or threw after its loop ran an
\* iteration that does not advance (an element that ends at an opening
\* brace) and called a nested constructor
C31_Witness ==
  /\ pc # "idle" /\ call = "make_reaction"
  /\ result.status \in {"ok", "syntax_error"}
  /\ \E st \in Visited(call, input, Entry(call, input, 1), Fuel(input)) :
       ~Advances(call, input, st)
  /\ Cardinality(CtorStarts(input)) > 1

(***************************************************************************)
(* Properties of the database                                              *)
(***************************************************************************)
\* the lines of the file at the current path, none when it cannot be opened
CurrentLines(d) == IF open_database(d) = "ok" THEN data_lines(d) ELSE <<>>

\* the element has the name or the id written on a line of the file at the
\* current path
ClashesWithFile(d, el) ==
  \E k \in 1..Len(CurrentLines(d)) :
     \/ CurrentLines(d)[k].name = el.name
     \/ /\ read_field_id(CurrentLines(d)[k]).sc = "success"
        /\ read_field_id(CurrentLines(d)[k]).value = el.id

\* the element has the name or the id of a cached user element
ClashesWithUser(d, el) == found_clash(user_registered(d), el)

\* the records of the file at the current path, in file order
RECURSIVE FileRecords(_)
FileRecords(lines) ==
  IF Len(lines) = 0 THEN <<>>
  ELSE IF read_element(lines[1]).ok
  THEN <<read_element(lines[1]).el>> \o FileRecords(Tail(lines))
  ELSE FileRecords(Tail(lines))

\* the current logical population: file records, then cached user records
Population(d) == FileRecords(CurrentLines(d)) \o user_registered(d)

NoSharedKey(q) ==
  \A j, k \in 1..Len(q) : j # k => q[j].name # q[k].name /\ q[j].id # q[k].id

\* two lookups have the same outcome
SameOutcome(o1, o2) == o1.status = o2.status /\ o1.value = o2.value

\* C6: register_element(X), X having the name or the id of a record of the
\* file at the current path or of a cached user record, fails with
\* database_error in every cache state and leaves the cache, the separator
\* and the path as they were; the same call made again fails again.
C6_RegisterClashStep ==
  (/\ ret'.op = "register_element"
   /\ (ClashesWithFile(Db, ret'.arg[1]) \/ ClashesWithUser(Db, ret'.arg[1])))
  => /\ ret'.status = "database_error"
     /\ UNCHANGED <<m_db, m_vector, m_separator>>

C6_RegisterClashAgain ==
  (/\ ret.op = "register_element" /\ ret.status = "database_error"
   /\ (ClashesWithFile(Db, ret.arg[1]) \/ ClashesWithUser(Db, ret.arg[1])))
  => /\ register_element(Db, ret.arg[1]).status = "database_error"
     /\ register_element(Db, ret.arg[1]).db = Db

C6_RegisterClashFails == [][C6_RegisterClashStep]_vars /\ []C6_RegisterClashAgain

\* C7: in every reachable state no two records of the current logical
\* population (records of the file at the current path and cached user
\* records) share a name or an id.
C7_UniquePopulation == alive => NoSharedKey(Population(Db))

\* C8: for every record e returned by all_elements(), the lookup by the
\* name of e and the lookup by the id of e both succeed and return equal
\* records.
C8_NameAndIdLookupsAgree ==
  (ret.op = "all_elements" /\ ret.status = "ok")
  => \A k \in 1..Len(ret.value) :
       LET by_name == access(Db, "name", ret.value[k].name)
           by_id == access(Db, "id", ret.value[k].id)
       IN /\ by_name.status = "ok"
          /\ by_id.status = "ok"
          /\ by_name.value = by_id.value

\* C9: a lookup by name or by id has the same outcome with the cache
\* enabled and with the cache disabled, path, file and user records being
\* the same: enabling or disabling the cache changes the outcome of no
\* lookup.
C9_ToggleStep ==
  (ret'.op \in {"enable_cache", "disable_cache"} /\ ret'.status = "ok")
  => /\ \A n \in Names :
          SameOutcome(access(Db, "name", n), access(Db', "name", n))
     /\ \A i \in Ids :
          SameOutcome(access(Db, "id", i), access(Db', "id", i))

C9_LookupIgnoresCacheMode == [][C9_ToggleStep]_vars

C9_Witness ==
  /\ ret.op = "access_name" /\ ret.status = "ok" /\ status(Db) = "user"
  /\ \A k \in 1..Len(m_vector) : m_vector[k] # ret.value[1]
  /\ enable_cache(Db).status = "ok" /\ status(enable_cache(Db).db) = "full"

\* C10: all_elements() returns the records of the file at the current path
\* in file order followed by the user-registered records in registration
\* order, and enabling or disabling the cache does not change what it
\* returns.
C10_AllElementsValue ==
  (ret.op = "all_elements" /\ ret.status = "ok")
  => ret.value = FileRecords(CurrentLines(Db)) \o registered

C10_ToggleStep ==
  (ret'.op \in {"enable_cache", "disable_cache"} /\ ret'.status = "ok")
  => SameOutcome(all_elements(Db), all_elements(Db'))

C10_AllElementsSameSequence == []C10_AllElementsValue /\ [][C10_ToggleStep]_vars

C10_Witness ==
  /\ ret.op = "all_elements" /\ ret.status = "ok" /\ status(Db) = "user"
  /\ Len(ret.value) > Len(registered) /\ Len(registered) > 1

\* C11: a successful enable_cache() followed by disable_cache() leaves the
\* cache holding exactly the user-registered records it held before, in the
\* same order, with separator 0 and no file record.
C11_EnableThenDisableStep ==
  /\ (ret'.op = "enable_cache" /\ ret'.status = "ok")
       => /\ user_registered(Db') = user_registered(Db)
          /\ disable_cache(Db').db.m_vector = user_registered(Db)
          /\ disable_cache(Db').db.m_separator = 0
  /\ (ret.op = "enable_cache" /\ ret.status = "ok" /\ ret'.op = "disable_cache")
       => /\ m_vector' = user_registered(Db)
          /\ m_vector' = registered
          /\ m_separator' = 0

C11_EnableThenDisable == [][C11_EnableThenDisableStep]_vars

C11_Witness ==
  /\ ret.op = "enable_cache" /\ ret.status = "ok" /\ status(Db) = "full"
  /\ user_registered_size(Db) >= 2 /\ m_separator >= 1

\* the file at the path can be opened and every one of its lines converts
WellFormed(p) ==
  /\ p # "" /\ files[p].readable
  /\ \A k \in 1..Len(files[p].lines) : read_element(files[p].lines[k]).ok

\* a record of the file at the path has the name or the id of a cached user
\* element
FileClashesWithUser(d, p) ==
  \E k \in 1..Len(files[p].lines) :
     /\ read_element(files[p].lines[k]).ok
     /\ found_clash(user_registered(d), read_element(files[p].lines[k]).el)

\* what C12 says of a set_database_path(p) step taken in state Full
SetPathReloads(p) ==
  /\ ret'.status = "ok"
  /\ m_db' = p
  /\ status(Db') = "full"
  /\ m_vector' = FileRecords(files[p].lines) \o user_registered(Db)

\* C12: set_database_path(p) called while the cache is Full, p naming a
\* readable well-formed file that does not clash with the user records,
\* leaves path p, cache status Full and the cache holding the records of p
\* in file order followed by the user records in their original order.
C12_SetPathStep ==
  (/\ ret'.op = "set_database_path" /\ status(Db) = "full"
   /\ WellFormed(ret'.arg[1]) /\ ~FileClashesWithUser(Db, ret'.arg[1]))
  => SetPathReloads(ret'.arg[1])

C12_SetPathInFullReloads == [][C12_SetPathStep]_vars

\* C13: whenever enable_cache() returns without error from cache state Empty
\* or UserOnly, the resulting cache state is Full.
C13_EnableStep ==
  (/\ ret'.op = "enable_cache" /\ ret'.status = "ok"
   /\ status(Db) \in {"empty", "user"})
  => status(Db') = "full"

C13_EnableGivesFull == [][C13_EnableStep]_vars

\* C14 as stated: disable_cache() called in cache state Full always results
\* in cache state UserOnly.
C14_OriginalStep ==
  (ret'.op = "disable_cache" /\ status(Db) = "full")
  => status(Db') = "user"

C14_Original == [][C14_OriginalStep]_vars

\* C14 (amended): disable_cache() called in cache state Full results in
\* cache state UserOnly when the cache holds a user-registered record and
\* in cache state Empty when it holds none.
C14_DisableStep ==
  (ret'.op = "disable_cache" /\ status(Db) = "full")
  => /\ ret'.status = "ok"
     /\ status(Db') = IF user_registered_size(Db) > 0 THEN "user" ELSE "empty"

C14_DisableFromFull == [][C14_DisableStep]_vars

C14_Witness ==
  /\ ret.op = "disable_cache" /\ ret.was = "full" /\ ret.status = "ok"
  /\ status(Db) = "user" /\ Len(m_vector) >= 2

\* C15: register_element never changes the cache state category except
\* Empty -> UserOnly: a successful registration in Full leaves Full, in
\* UserOnly leaves UserOnly, in Empty gives UserOnly, and the separator is
\* unchanged; a failing registration leaves the state category unchanged.
C15_RegisterStep ==
  ret'.op = "register_element"
  => /\ m_separator' = m_separator
     /\ ret'.status = "ok"
          => /\ status(Db') = IF status(Db) = "empty" THEN "user" ELSE status(Db)
             /\ m_vector' = Append(m_vector, ret'.arg[1])
     /\ ret'.status # "ok" => status(Db') = status(Db)

C15_RegisterKeepsCategory == [][C15_RegisterStep]_vars

C15_Witness ==
  /\ ret.op = "register_element" /\ ret.status = "ok" /\ ret.was = "full"
  /\ status(Db) = "full" /\ m_separator = 2
  /\ m_vector[Len(m_vector)] = ret.arg[1]

\* C16: all_elements() is observationally pure: in every cache state,
\* whether it returns or throws, the cache contents, the separator and the
\* path are the same after the call as before it.
C16_AllElementsStep ==
  ret'.op = "all_elements" => UNCHANGED <<m_db, m_vector, m_separator>>

C16_AllElementsPure == [][C16_AllElementsStep]_vars

\* all_elements returned the records it read from the file, the cache
\* holding user records only
C16_Witness ==
  /\ ret.op = "all_elements" /\ ret.status = "ok" /\ ret.was = "user"
  /\ Len(ret.value) = Len(m_vector) + 2 /\ m_separator = 0

\* the key of the lookup is held by no cached user record
MissesUserRecords(d, op, v) ==
  access_cache(user_registered(d), 1, IF op = "access_name" THEN "name" ELSE "id",
               v) = <<>>

\* the path is empty or names a file that cannot be opened
BadPath(d) == d.m_db = "" \/ ~files[d.m_db].readable

\* C17: with an empty path or a path that cannot be opened, every operation
\* that needs the file (in the states other than Full: enable_cache,
\* all_elements, register_element and the lookup of a key that no cached
\* user record holds) fails with database_error and leaves the cache
\* contents and the separator unchanged.
C17_BadPathStep ==
  (/\ BadPath(Db) /\ status(Db) # "full"
   /\ \/ ret'.op \in {"enable_cache", "all_elements", "register_element"}
      \/ /\ ret'.op \in {"access_name", "access_id"}
         /\ MissesUserRecords(Db, ret'.op, ret'.arg[1]))
  => /\ ret'.status = "database_error"
     /\ UNCHANGED <<m_vector, m_separator>>

C17_BadPathFails == [][C17_BadPathStep]_vars

C17_Witness ==
  /\ ret.op = "access_name" /\ ret.status = "database_error"
  /\ ret.was = "user" /\ m_db = "missing" /\ Len(m_vector) >= 1

\* a data line of the file at the path does not decode
Malformed(p) ==
  /\ p # "" /\ files[p].readable
  /\ \E k \in 1..Len(files[p].lines) : ~read_element(files[p].lines[k]).ok

\* what C27 says of an enable_cache step taken outside state Full
C27_EnableStep ==
  (/\ ret'.op = "enable_cache" /\ status(Db) # "full"
   /\ \/ BadPath(Db)
      \/ Malformed(m_db)
      \/ ~BadPath(Db) /\ FileClashesWithUser(Db, m_db))
  => /\ ret'.status = "database_error"
     /\ UNCHANGED <<m_vector, m_separator>>

\* C27: when a data line of the file is malformed, the path is missing or
\* unreadable, or a record of the file clashes with a user record,
\* enable_cache fails with database_error and leaves the cache contents,
\* the separator and the state as they were.
C27_EnableStrictAtomic == [][C27_EnableStep]_vars

\* the first cached element whose field equals v, if any
CacheHits(field, v) ==
  {k \in 1..Len(m_vector) :
     IF field = "name" THEN m_vector[k].name = v ELSE m_vector[k].id = v}

FirstHit(field, v) ==
  CHOOSE k \in CacheHits(field, v) : \A j \in CacheHits(field, v) : k <= j

\* the outcome of a lookup that the cache alone fixes
LookupFromCache(field, v) ==
  IF CacheHits(field, v) = {}
  THEN ret'.status = "lookup_error" /\ ret'.value = <<>>
  ELSE ret'.status = "ok" /\ ret'.value = <<m_vector[FirstHit(field, v)]>>

\* what C28 says of a step taken in state Full
C28_FullStep ==
  status(Db) = "full" =>
    /\ ret'.op = "enable_cache"
         => ret'.status = "ok" /\ UNCHANGED <<m_vector, m_separator>>
    /\ ret'.op = "all_elements"
         => /\ ret'.status = "ok" /\ ret'.value = m_vector
            /\ UNCHANGED <<m_vector, m_separator>>
    /\ ret'.op = "access_name"
         => /\ LookupFromCache("name", ret'.arg[1])
            /\ UNCHANGED <<m_vector, m_separator>>
    /\ ret'.op = "access_id"
         => /\ LookupFromCache("id", ret'.arg[1])
            /\ UNCHANGED <<m_vector, m_separator>>
    /\ ret'.op = "register_element"
         => IF \E k \in 1..Len(m_vector) :
                  \/ m_vector[k].name = ret'.arg[1].name
                  \/ m_vector[k].id = ret'.arg[1].id
            THEN /\ ret'.status = "database_error"
                 /\ UNCHANGED <<m_vector, m_separator>>
            ELSE /\ ret'.status = "ok"
                 /\ m_vector' = Append(m_vector, ret'.arg[1])
                 /\ m_separator' = m_separator

\* C28: in state Full enable_cache changes nothing, and the lookups,
\* all_elements and register_element complete from the cache alone, with
\* outcomes that the cache contents fix, whatever the path and the file
\* (empty path, file that became unreadable or changed).
C28_FullTouchesNoFile == [][C28_FullStep]_vars

\* a registration succeeded in state Full after the file became unreadable
C28_Witness ==
  /\ ret.op = "register_element" /\ ret.was = "full" /\ ret.status = "ok"
  /\ ~files[m_db].readable

\* the two parts of the cache
FilePart == SubSeq(m_vector, 1, m_separator)

UserPart == SubSeq(m_vector, m_separator + 1, Len(m_vector))

\* C29 as it is written: in every reachable state the separator is at most
\* the number of cached records, the records before the separator are
\* exactly the records decoded by the last successful enable_cache, in file
\* order, and the records from the separator on are exactly the
\* user-registered records, in registration order.
C29_Original ==
  /\ m_separator <= Len(m_vector)
  /\ FilePart = loaded
  /\ UserPart = registered

\* C29: in every reachable state the separator is at most the number of
\* cached records, the records before the separator are none (nothing was
\* loaded, or disable_cache, clear_cache or a failed reload dropped them)
\* or exactly the records decoded by the last enable_cache that read the
\* file with success, in file order, and the records from the separator on
\* are exactly the user records registered since the last clear_cache, in
\* registration order.
C29_CachePartition ==
  /\ m_separator <= Len(m_vector)
  /\ m_separator = 0 \/ FilePart = loaded
  /\ UserPart = registered

\* the file was loaded next to two user records
C29_Witness ==
  /\ ret.op = "enable_cache" /\ ret.was = "user" /\ ret.status = "ok"
  /\ m_separator >= 1 /\ Len(registered) >= 2

\* C30: skip_commented_lines terminates for every content of the file, an
\* empty file and a file of comment lines only included, so that every
\* operation that opens the file (enable_cache, all_elements,
\* register_element, lookup) returns or throws.
C30_SkipTerminates ==
  ret.op \in {"enable_cache", "all_elements", "register_element",
              "access_name", "access_id"}
  => ret.status # "hang"

\* what C36 says of an enable_cache step that reads a file holding a record
\* with the name or the id of a cached user record
C36_ClashStep ==
  (/\ ret'.op = "enable_cache" /\ status(Db) # "full" /\ ~BadPath(Db)
   /\ FileClashesWithUser(Db, m_db))
  => /\ ret'.status = "database_error"
     /\ enable_cache(Db).status # "undefined"

\* C36: when enable_cache meets a file record with the name or the id of a
\* cached user record it fails with database_error and builds the error
\* from records that exist: it never reads the last element of an empty
\* sequence, also when the clashing record is the first of the file.
C36_ClashErrorFromExistingRecords == [][C36_ClashStep]_vars

\* what C34 says of a set_database_path step that throws
C34_SetPathStep ==
  (ret'.op = "set_database_path" /\ ret'.status = "database_error")
  => /\ status(Db) = "full"
     /\ UNCHANGED <<m_db, m_vector, m_separator>>

\* C34: a set_database_path(p) that throws (the cache is Full and the file
\* at p is missing, malformed or clashes with a user record) leaves the
\* database as it was: same path, same cache contents, state Full.
C34_SetPathAtomicOnFailure == [][C34_SetPathStep]_vars

(***************************************************************************)
(* Properties of the decoding of fields                                    *)
(***************************************************************************)
\* the characters of s at the indexes of [R.min, R.max) that exist
Columns(R, s) == substr(s, IF R.min < Len(s) THEN R.min ELSE Len(s),
                        R.max - R.min)

Blank(t) == \A k \in 1..Len(t) : t[k] = " "

RECURSIVE Trim(_)
\* t without its leading and trailing spaces
Trim(t) ==
  IF t = <<>> THEN t
  ELSE IF t[1] = " " THEN Trim(Tail(t))
  ELSE IF t[Len(t)] = " " THEN Trim(SubSeq(t, 1, Len(t) - 1))
  ELSE t

\* what a reader of the columns [R.min, R.max) alone returns
DecodeColumns(R, T, s) ==
  IF Blank(Columns(R, s)) THEN [status |-> "empty", value |-> NoValue]
  ELSE string_to_type(T, Trim(Columns(R, s)))

\* C26: read_field of a range [min, max) returns empty iff every existing
\* character at an index of [min, max) is a space and otherwise converts
\* exactly the characters at these indexes without their leading and
\* trailing spaces; no character at an index >= max changes the result.
C26_ReadsOnlyOwnColumns ==
  fpc = "range" => fout = DecodeColumns(frange[1], ftype, fline)

\* the members a composite reader decodes, with their types
Members ==
  IF fpc = "value_and_error_with_tag" THEN <<"int", "int", "string">>
  ELSE IF fpc = "value_and_errors" THEN <<"int", "int", "int">>
  ELSE <<"int", "int">>

\* the status of member k decoded from the columns of its own range
MemberStatus(k) == DecodeColumns(frange[k], Members[k], fline).status

\* C25: read_field of a value+error(s) field returns empty exactly when no
\* character other than a space lies between the start of the first range
\* and the end of the last range, success exactly when every member decodes
\* with success, and failed in every other case.
C25_CompositeAllOrNothing ==
  fpc \in {"value_and_error", "value_and_error_with_tag", "value_and_errors"}
  => fout.status =
       IF Blank(Columns(overall_range(frange), fline)) THEN "empty"
       ELSE IF \A k \in 1..Len(Members) : MemberStatus(k) = "success"
         THEN "success"
       ELSE "failed"

(***************************************************************************)
(* Properties of the units                                                 *)
(***************************************************************************)
\* the rank of an energy unit: eV = 0, keV = 1, ..., PeV = 5
Rank(u) == (CHOOSE k \in 1..Len(energy_units) : energy_units[k] = u) - 1

\* C32: the energy scale factors form a uniform ladder: for every pair of
\* units (U, u) of eV, keV, MeV, GeV, TeV, PeV, scale_factor of the
\* reference U on u is 10^(3 * (rank(U) - rank(u))).
C32_EnergyLadder ==
  (upc = "energy" /\ uref # unknown_energy_units
     /\ uarg # unknown_energy_units)
  => uout = Scaled([num |-> 1, den |-> 1, e |-> 3 * (Rank(uref) - Rank(uarg))])

(***************************************************************************)
(* Properties of the binding                                               *)
(***************************************************************************)
\* the ways to give every node of a list of n nodes a partner of its own
Matchings(n) ==
  {m \in [1..n -> 1..n] : \A i, j \in 1..n : m[i] = m[j] => i = j}

\* every node of first has a partner of its own in second that == finds
\* equal to it
HasMatching(first, second) ==
  /\ Len(first) = Len(second)
  /\ \E m \in Matchings(Len(first)) :
       \A i \in 1..Len(first) : rich_compare(first[i], second[m[i]]) = 1

\* C33: compare_nodes(first, second, ==) is an exhaustive matching: it
\* returns true only if every node of first is matched to a distinct equal
\* node of second, and false when some node of first has no such partner
\* (lists of equal length with different contents compare unequal).
C33_ExhaustiveMatching ==
  (bpc = "compare_nodes" /\ bout = 1) => HasMatching(bfirst, bsecond)

====
